---------------------------- MODULE Spec2Model ----------------------------
(***************************************************************************)
(* StockDash backend: the Selenium scraper (scraper.py), the daily         *)
(* freshness cache and the request handlers that use them (app.py), and    *)
(* the SQLite tables behind them (database.py).                            *)
(*                                                                         *)
(* Spec       the ratios / quarterly request path: concurrent Flask        *)
(*            request threads, the cache lookup, the scraper call under    *)
(*            selenium_lock, the cache write.                              *)
(* SpecCache  the cache accessors called directly with arbitrary           *)
(*            arguments (save_*_cache, get_cached_*_by_ticker).            *)
(* SpecReg    the company registry: get_stock_price and add_holding.       *)
(*                                                                         *)
(* Python values: None is the empty sequence and a value v that may be     *)
(* None is <<v>>; a dict with string keys is a function; a list is a       *)
(* sequence; a JSON text is a sequence of tokens.                          *)
(***************************************************************************)
EXTENDS Integers, Sequences, FiniteSets, TLC

VARIABLES
    today,            \* datetime.now() as a calendar day
    holdings,         \* table holdings
    ratios_cache,     \* table ratios_cache
    quarterly_cache,  \* table quarterly_cache
    selenium_lock,    \* scraper.selenium_lock: <<>> when free, <<t>> when held by t
    browsers,         \* per thread: Edge sessions it launched that are not yet quit
    pc,               \* per request thread: where it is in its handler
    req,              \* per request thread: [user_id, ticker, kind] of its request
    driver,           \* per request thread: the local variable driver of the scraper
    result,           \* per request thread: what the scraper call returned
    resp,             \* per request thread: the response of its last request
    lookup,           \* per request thread: what was stored when it looked the cache up
    phases,           \* per thread: what its current scraper call has done so far
    lastOp,           \* SpecCache: the last cache call made, and for a get the put before it
    companies,        \* table companies, in rowid order: the row with id i is companies[i]
    call,             \* per request thread: the locals of its get_stock_price / add_holding, and whether it ran Stage B
    resolved,         \* per company name: the tickers whose registry write under that name succeeded
    probe,            \* one call of find_working_kotak_url: its argument, locals and requests made
    quote,            \* one call of get_kotak_price_from_url by get_stock_price: answer, result, response
    parse,            \* one call of parse_price: its argument and what it returned or raised
    qresults,         \* one call of _parse_quarterly_results: the page's table and the result
    debug_pages,      \* the names of the debug_scraper_<ticker>.html files written
    market            \* per holding id: the columns marketPrice, previousClose, priceChangeAmount, priceChangePercent of its row

cacheVars  == <<ratios_cache, quarterly_cache>>
threadVars == <<pc, req, driver, result, resp, lookup, phases>>
regVars    == <<companies, call, resolved>>
fnVars     == <<probe, quote, parse, qresults>>
vars == <<today, holdings, ratios_cache, quarterly_cache, selenium_lock,
          browsers, pc, req, driver, result, resp, lookup, phases, lastOp,
          companies, call, resolved, probe, quote, parse, qresults, debug_pages, market>>

-----------------------------------------------------------------------------
(* Bounds *)

\* Calendar days the clock can show: 1..MaxDay.
MaxDay == 2

Days == 1..MaxDay

\* Request threads of the (threaded) Flask server.
Threads == {"t1", "t2"}

\* Authenticated users (jwt_required has accepted the token).
Users == {1, 2}

Kinds == {"ratios", "quarterly"}

\* Ticker strings as they arrive in the URL, and their upper / lower forms.
RawTickers == {"axisbank", "AXISBANK", "ITC"}

\* The (user, ticker) of a ratios or quarterly request: a user asking for a
\* stock he holds, for one he does not hold, and for one another user holds.
RequestInputs == {<<1, "axisbank">>, <<1, "AXISBANK">>, <<1, "ITC">>, <<2, "AXISBANK">>}

None == <<>>

Some(v) == <<v>>

-----------------------------------------------------------------------------
(* Strings *)

upper(s) ==
    CASE s \in {"axisbank", "AXISBANK"} -> "AXISBANK"
      [] s \in {"itc", "ITC"} -> "ITC"
      [] s \in {"wipro", "Wipro", "WIPRO"} -> "WIPRO"
      [] s \in {"WiproLtd", "WIPROLTD"} -> "WIPROLTD"
      [] OTHER -> s

lower(s) ==
    CASE s \in {"axisbank", "AXISBANK"} -> "axisbank"
      [] s \in {"itc", "ITC"} -> "itc"
      [] s \in {"wipro", "Wipro", "WIPRO"} -> "wipro"
      [] OTHER -> s

\* s.replace(' ', '')
remove_spaces(s) ==
    CASE s = "Wipro Ltd" -> "WiproLtd"
      [] s = "Axis Bank Ltd" -> "AxisBankLtd"
      [] s = "ITC Ltd" -> "ITCLtd"
      [] OTHER -> s

-----------------------------------------------------------------------------
(* Payloads and their JSON text (json.dumps / json.loads) *)

\* An enumeration of a finite set, as dict iteration gives one.
SetToSeq(S) ==
    CHOOSE s \in [1..Cardinality(S) -> S] :
        \A i, j \in 1..Cardinality(S) : i # j => s[i] # s[j]

RECURSIVE Flatten(_)
Flatten(ss) ==
    IF ss = <<>> THEN <<>> ELSE Head(ss) \o Flatten(Tail(ss))

\* A ratios payload is a dict: ratio name -> {full_value, number_value, unit,
\* source_type}. Its JSON text is, per item, the key and the four values.
RatioTokens == 5

json_dumps_ratios(d) ==
    LET ks == SetToSeq(DOMAIN d)
    IN  Flatten([i \in 1..Len(ks) |->
            <<ks[i], d[ks[i]].full_value, d[ks[i]].number_value,
              d[ks[i]].unit, d[ks[i]].source_type>>])

json_loads_ratios(s) ==
    LET n == Len(s) \div RatioTokens
        at(i) == RatioTokens * (i - 1)
        keys == {s[at(i) + 1] : i \in 1..n}
        last(k) == CHOOSE i \in 1..n :
                      /\ s[at(i) + 1] = k
                      /\ \A j \in 1..n : s[at(j) + 1] = k => j <= i
    IN  [k \in keys |->
            [full_value |-> s[at(last(k)) + 2], number_value |-> s[at(last(k)) + 3],
             unit |-> s[at(last(k)) + 4], source_type |-> s[at(last(k)) + 5]]]

\* A quarterly payload is {'headers': [..], 'metrics': {name: [..]}}. Its JSON
\* text is the two keys with their values, the metrics as (name, values) pairs.
json_dumps_quarterly(q) ==
    LET ks == SetToSeq(DOMAIN q.metrics)
    IN  <<"headers", q.headers, "metrics",
          [i \in 1..Len(ks) |-> <<ks[i], q.metrics[ks[i]]>>]>>

json_loads_quarterly(s) ==
    LET ms == s[4]
        last(k) == CHOOSE i \in 1..Len(ms) :
                      /\ ms[i][1] = k
                      /\ \A j \in 1..Len(ms) : ms[j][1] = k => j <= i
    IN  [headers |-> s[2],
         metrics |-> [k \in {ms[i][1] : i \in 1..Len(ms)} |-> ms[last(k)][2]]]

json_dumps(kind, data) ==
    IF kind = "ratios" THEN json_dumps_ratios(data) ELSE json_dumps_quarterly(data)

json_loads(kind, text) ==
    IF kind = "ratios" THEN json_loads_ratios(text) ELSE json_loads_quarterly(text)

\* The empty dict {}.
EmptyDict == [n \in {} |-> <<>>]

\* What the company page of a ticker shows (the site's data, tagged by ticker).
SiteRatios(ticker) ==
    [n \in {"Market Cap", "Stock P/E"} |->
        [full_value |-> ticker, number_value |-> IF n = "Stock P/E" THEN "21.5" ELSE "3,40,000",
         unit |-> IF n = "Stock P/E" THEN "" ELSE "Cr.", source_type |-> "default"]]

SiteQuarterly(ticker) ==
    [headers |-> <<"Mar 2025", "Jun 2025">>,
     metrics |-> [n \in {"Sales"} |-> <<ticker, "120">>]]

\* Python truthiness of a value that may be None: None and {} are falsy; a
\* quarterly payload always has its two keys.
Truthy(kind, opt) ==
    /\ opt # None
    /\ kind = "ratios" => DOMAIN opt[1] # {}

-----------------------------------------------------------------------------
(* database.py: holdings and the two cache tables *)

\* A holdings row (the price columns and avgPrice are not modelled).
HoldingRow(id, user_id, company_id, symbol, ticker, quantity) ==
    [id |-> id, user_id |-> user_id, company_id |-> company_id,
     symbol |-> symbol, ticker |-> ticker, quantity |-> quantity]

\* The four market-data columns of a holdings row, each a text or NULL.
MarketColumns(marketPrice, previousClose, priceChangeAmount, priceChangePercent) ==
    [marketPrice |-> marketPrice, previousClose |-> previousClose,
     priceChangeAmount |-> priceChangeAmount,
     priceChangePercent |-> priceChangePercent]

\* create_holding: holding_data.get('marketPrice', '') and the like, for a
\* holding_data that has none of the four keys.
NewColumns(rows) ==
    [id \in {h.id : h \in rows} |-> MarketColumns(<<<<>>>>, <<<<>>>>, <<<<>>>>, <<<<>>>>)]

\* SELECT * FROM holdings WHERE (ticker = ? OR symbol = ?) AND user_id = ?
\* with (ticker.lower(), ticker.upper(), user_id); fetchone().
find_existing_holding_by_ticker(ticker, user_id) ==
    LET rows == {h \in holdings :
                    /\ h.ticker = lower(ticker) \/ h.symbol = upper(ticker)
                    /\ h.user_id = user_id}
    IN  IF rows = {} THEN None ELSE Some(CHOOSE h \in rows : TRUE)

\* A row of ratios_cache / quarterly_cache (the AUTOINCREMENT id and
\* created_at are not modelled; data is the JSON text column).
CacheRow(user_id, holding_id, data, cache_date, updated_time) ==
    [user_id |-> user_id, holding_id |-> holding_id, data |-> data,
     cache_date |-> cache_date, updated_time |-> updated_time]

\* FOREIGN KEY (user_id) REFERENCES users, (holding_id) REFERENCES holdings,
\* with PRAGMA foreign_keys = ON.
ForeignKeysHold(row) ==
    /\ row.user_id \in Users
    /\ \E h \in holdings : h.id = row.holding_id

\* INSERT OR IGNORE: a row in conflict keeps the new one out.
InsertOrReplace_Ignore(table, row) ==
    IF ForeignKeysHold(row) /\ \A r \in table : r.holding_id # row.holding_id
    THEN table \cup {row}
    ELSE table

\* A plain INSERT into a table without the UNIQUE constraint.
InsertOrReplace_NoUnique(table, row) ==
    IF ForeignKeysHold(row) THEN table \cup {row} ELSE table

\* INSERT OR REPLACE with holding_id UNIQUE: the row in conflict is deleted,
\* the new row inserted. A foreign key violation raises and changes nothing.
InsertOrReplace(table, row) ==
    IF ForeignKeysHold(row)
    THEN {r \in table : r.holding_id # row.holding_id} \cup {row}
    ELSE table

CacheTable(kind) ==
    IF kind = "ratios" THEN ratios_cache ELSE quarterly_cache

\* save_ratios_cache / save_quarterly_cache: the table after the call.
save_cache(kind, holding_id, data, cache_date, updated_time, user_id) ==
    InsertOrReplace(CacheTable(kind),
        CacheRow(user_id, holding_id, json_dumps(kind, data), cache_date, updated_time))

\* get_ratios_cache / get_quarterly_cache.
get_cache(kind, holding_id) ==
    LET rows == {r \in CacheTable(kind) : r.holding_id = holding_id}
        r == CHOOSE r \in rows : TRUE
    IN  IF rows = {} THEN None
        ELSE Some([data |-> json_loads(kind, r.data), date |-> r.cache_date,
                   updated_time |-> r.updated_time])

-----------------------------------------------------------------------------
(* database.py: the company registry *)

\* A row of companies; its id is its position in the table. tickers is the
\* JSON list column, screener_urls the JSON object column.
CompanyRow(name, tickers, screener_urls, kotak_url) ==
    [name |-> name, tickers |-> tickers, screener_urls |-> screener_urls,
     kotak_url |-> kotak_url]

Range(seq) == {seq[i] : i \in DOMAIN seq}

\* find_company_by_ticker: the first row, in rowid order, one of whose tickers
\* is the given one when both are upper-cased.
find_company_by_ticker(ticker) ==
    LET ids == {i \in DOMAIN companies :
                    upper(ticker) \in {upper(x) : x \in Range(companies[i].tickers)}}
        id == CHOOSE i \in ids : \A j \in ids : i <= j
    IN  IF ids = {} THEN None
        ELSE Some([id |-> id, name |-> companies[id].name,
                   tickers |-> companies[id].tickers,
                   screener_urls |-> companies[id].screener_urls,
                   kotak_url |-> companies[id].kotak_url])

\* An INSERT that checks no constraint on name.
NameIsUnique_Unchecked(table, name) == TRUE

\* companies.name TEXT NOT NULL UNIQUE: an INSERT of a name the table holds
\* raises IntegrityError.
NameIsUnique(table, name) == \A i \in DOMAIN table : table[i].name # name

\* get_or_create_company, "SELECT id FROM companies WHERE name = ?".
SelectCompanyId(name) ==
    LET ids == {i \in DOMAIN companies : companies[i].name = name}
    IN  IF ids = {} THEN None ELSE Some(CHOOSE i \in ids : \A j \in ids : i <= j)

\* get_or_create_company, the UPDATE of the row found.
UpdateCompany(company_id, tickers, screener_urls, kotak_url) ==
    [companies EXCEPT ![company_id] =
        CompanyRow(@.name, tickers, screener_urls, kotak_url)]

\* get_or_create_company, the INSERT of a new row.
InsertCompany(name, tickers, screener_urls, kotak_url) ==
    Append(companies, CompanyRow(name, tickers, screener_urls, kotak_url))

-----------------------------------------------------------------------------
(* app.py: the freshness cache *)

get_today_date == today

\* A freshness check that looks at no date.
is_data_fresh_AnyDate(data_entry) == data_entry # None

\* A freshness check that never finds the data fresh.
is_data_fresh_Never(data_entry) == FALSE

is_data_fresh(data_entry) ==
    /\ data_entry # None
    /\ data_entry[1].date = get_today_date

\* get_cached_ratios_by_ticker / get_cached_quarterly_by_ticker.
get_cached_by_ticker(kind, ticker, user_id) ==
    LET existing_holding == find_existing_holding_by_ticker(ticker, user_id)
        cached == get_cache(kind, existing_holding[1].id)
    IN  IF existing_holding = None THEN None
        ELSE IF cached # None /\ is_data_fresh(cached) THEN Some(cached[1].data)
        ELSE None

\* A save that stores nothing.
save_to_cache_by_ticker_Skip(kind, ticker, data, user_id) == CacheTable(kind)

\* save_ratios_to_cache_by_ticker / save_quarterly_to_cache_by_ticker: the
\* table of that kind after the call.
save_to_cache_by_ticker(kind, ticker, data, user_id) ==
    LET existing_holding == find_existing_holding_by_ticker(ticker, user_id)
    IN  IF existing_holding = None THEN CacheTable(kind)
        ELSE save_cache(kind, existing_holding[1].id, data, get_today_date,
                        get_today_date, user_id)

-----------------------------------------------------------------------------
(* scraper.py: scrape_screener_ratios / scrape_quarterly_results, and the   *)
(* handlers get_stock_ratios / get_quarterly_results of app.py that call    *)
(* them. The two scraper functions differ in the anchor they wait for and   *)
(* in the parser; kind selects between them.                                *)

\* The loaded company page, as the parser sees it: whether the anchor element
\* (ul#top-ratios; section#quarters with its table.data-table) is found, and
\* the data its items hold.
Pages(kind, ticker) ==
    IF kind = "ratios"
    THEN {[anchor |-> FALSE, data |-> EmptyDict],
          [anchor |-> TRUE, data |-> EmptyDict],
          [anchor |-> TRUE, data |-> SiteRatios(ticker)]}
    ELSE {[anchor |-> FALSE, data |-> SiteQuarterly(ticker)],
          [anchor |-> TRUE, data |-> SiteQuarterly(ticker)]}

\* _parse_ratios_from_page / _parse_quarterly_results.
parse_page(kind, page) ==
    IF ~page.anchor THEN None
    ELSE IF kind = "ratios" /\ DOMAIN page.data = {} THEN None
    ELSE Some(page.data)

\* How old a stored cache_date is on the day it is read.
Age(date) ==
    IF date = today THEN "today" ELSE IF date < today THEN "past" ELSE "future"

\* The rows of that kind stored for a holding of the user in the ticker, read
\* off the tables.
StoredRows(kind, ticker, user_id) ==
    {r \in CacheTable(kind) :
        \E h \in holdings : /\ h.id = r.holding_id
                            /\ h.user_id = user_id
                            /\ h.symbol = ticker}

\* The same rows as a request sees them: the age and the JSON text of each.
Stored(kind, ticker, user_id) ==
    {[age |-> Age(r.cache_date), data |-> r.data] : r \in StoredRows(kind, ticker, user_id)}

Response(status, cached, data) ==
    [status |-> status, cached |-> cached, data |-> data]

\* The lock taken without waiting for it.
LockFree_NoWait == TRUE

\* with selenium_lock: __enter__ blocks until the lock is free.
LockFree == selenium_lock = None

\* A finally block that quits nothing.
QuitDriver_Skip(t) == browsers[t]

\* finally: if driver: driver.quit(). The count of live sessions of t after it.
QuitDriver(t) ==
    IF driver[t] # None THEN browsers[t] - 1 ELSE browsers[t]

\* What a scraper function returns when it runs to the parse: the parsed data,
\* or None when the parse is empty.
ScrapeResult(kind, page) ==
    LET data == parse_page(kind, page)
    IN  IF Truthy(kind, data) THEN data ELSE None

\* with selenium_lock:
AcquireLock(t) ==
    /\ pc[t] = "scrape"
    /\ LockFree
    /\ selenium_lock' = Some(t)
    /\ pc' = [pc EXCEPT ![t] = "locked"]
    /\ lookup' = [lookup EXCEPT ![t] = {}]
    /\ UNCHANGED <<today, holdings, cacheVars, browsers, req, driver, result, resp, phases, lastOp, regVars, fnVars, debug_pages, market>>

\* A scraper that does not check the driver path.
DriverMissing_Unchecked(exists) == FALSE

\* if not os.path.exists(EDGE_DRIVER_PATH)
DriverMissing(exists) == ~exists

\* The driver path check, then webdriver.Edge(...): the driver binary is
\* missing (return None), the launch raises (as it does when there is no
\* binary to start), or a session is launched.
StartSession(t) ==
    /\ pc[t] = "locked"
    /\ \E exists \in BOOLEAN, launched \in BOOLEAN :
        LET seen == IF exists THEN phases[t] ELSE Append(phases[t], "no_driver")
        IN  IF DriverMissing(exists)
            THEN /\ pc' = [pc EXCEPT ![t] = "unlock"]
                 /\ phases' = [phases EXCEPT ![t] = seen]
                 /\ UNCHANGED <<browsers, driver>>
            ELSE IF ~launched \/ ~exists
            THEN /\ pc' = [pc EXCEPT ![t] = "finally"]
                 /\ phases' = [phases EXCEPT ![t] = Append(seen, "launch_raised")]
                 /\ UNCHANGED <<browsers, driver>>
            ELSE /\ pc' = [pc EXCEPT ![t] = "login"]
                 /\ phases' = [phases EXCEPT ![t] = Append(seen, "launched")]
                 /\ browsers' = [browsers EXCEPT ![t] = @ + 1]
                 /\ driver' = [driver EXCEPT ![t] = Some("edge")]
    /\ UNCHANGED <<today, holdings, cacheVars, selenium_lock, req, result, resp, lookup, lastOp, regVars, fnVars, debug_pages, market>>

\* A scraper that goes on to the company page whatever the URL after login.
AfterLogin_GoOn(outcome) == IF outcome = "login_raised" THEN "finally" ELSE "navigate"

\* if '/login/' in driver.current_url: return None; an exception goes to the
\* except block; both leave through finally. Otherwise the company page is next.
AfterLogin(outcome) == IF outcome = "login_ok" THEN "navigate" ELSE "finally"

\* driver.get(login), fill and submit the form, check driver.current_url:
\* a wait or a lookup raises, the URL still holds /login/, or login succeeded.
Login(t) ==
    /\ pc[t] = "login"
    /\ \E outcome \in {"login_raised", "login_failed", "login_ok"} :
        /\ pc' = [pc EXCEPT ![t] = AfterLogin(outcome)]
        /\ phases' = [phases EXCEPT ![t] = Append(@, outcome)]
    /\ UNCHANGED <<today, holdings, cacheVars, selenium_lock, browsers, req, driver, result, resp, lookup, lastOp, regVars, fnVars, debug_pages, market>>

\* A scraper that loads the company page again when the wait timed out.
AfterNavigate_Retry(outcome) == IF outcome = "navigated" THEN "extract" ELSE "navigate"

\* A timeout of the wait goes to the except block, and the parse is next
\* otherwise.
AfterNavigate(outcome) == IF outcome = "navigated" THEN "extract" ELSE "finally"

\* driver.get(ticker_url); wait.until(the anchor is present): times out or not.
Navigate(t) ==
    /\ pc[t] = "navigate"
    /\ \E outcome \in {"navigate_raised", "navigated"} :
        /\ pc' = [pc EXCEPT ![t] = AfterNavigate(outcome)]
        /\ phases' = [phases EXCEPT ![t] = Append(@, outcome)]
    /\ UNCHANGED <<today, holdings, cacheVars, selenium_lock, browsers, req, driver, result, resp, lookup, lastOp, regVars, fnVars, debug_pages, market>>

\* f'debug_scraper_{ticker}.html'
DebugPage(ticker) == "debug_scraper_" \o ticker \o ".html"

\* Whether the function of that kind calls _save_debug_page when the parse is
\* empty: scrape_screener_ratios does, scrape_quarterly_results does not.
SavesDebugPage(kind) == kind = "ratios"

\* The files after a call of that kind for the ticker came to an empty
\* parse: _save_debug_page writes the file, or fails to and says so.
AfterEmptyParse(kind, ticker) ==
    IF SavesDebugPage(kind)
    THEN {debug_pages, debug_pages \cup {DebugPage(ticker)}}
    ELSE {debug_pages}

\* The parse and the return of its result (None when it is empty), after the
\* debug page was saved where the function does that.
Extract(t) ==
    /\ pc[t] = "extract"
    /\ \E page \in Pages(req[t].kind, req[t].ticker) :
        /\ result' = [result EXCEPT ![t] = ScrapeResult(req[t].kind, page)]
        /\ IF ScrapeResult(req[t].kind, page) = None
           THEN debug_pages' \in AfterEmptyParse(req[t].kind, req[t].ticker)
           ELSE debug_pages' = debug_pages
        /\ phases' = [phases EXCEPT ![t] =
               Append(@, IF ScrapeResult(req[t].kind, page) = None THEN "extracted_empty" ELSE "extracted")]
    /\ pc' = [pc EXCEPT ![t] = "finally"]
    /\ UNCHANGED <<today, holdings, cacheVars, selenium_lock, browsers, req, driver, resp, lookup, lastOp, regVars, fnVars, market>>

\* finally: if driver: driver.quit()
Finally(t) ==
    /\ pc[t] = "finally"
    /\ browsers' = [browsers EXCEPT ![t] = QuitDriver(t)]
    /\ phases' = [phases EXCEPT ![t] = IF driver[t] # None THEN Append(@, "quit") ELSE @]
    /\ pc' = [pc EXCEPT ![t] = "unlock"]
    /\ UNCHANGED <<today, holdings, cacheVars, selenium_lock, req, driver, result, resp, lookup, lastOp, regVars, fnVars, debug_pages, market>>

\* The with block is left: selenium_lock.__exit__, and the function returns.
ReleaseLock(t) ==
    /\ pc[t] = "unlock"
    /\ selenium_lock' = None
    /\ driver' = [driver EXCEPT ![t] = None]
    /\ pc' = [pc EXCEPT ![t] = "returned"]
    /\ UNCHANGED <<today, holdings, cacheVars, browsers, req, result, resp, lookup, phases, lastOp, regVars, fnVars, debug_pages, market>>

\* A thread calls scrape_screener_ratios(ticker) or
\* scrape_quarterly_results(ticker); a returned call may be followed by another.
Call(t) ==
    /\ pc[t] \in {"idle", "returned"}
    /\ \E raw \in RawTickers, kind \in Kinds :
        req' = [req EXCEPT ![t] = [user_id |-> 0, ticker |-> raw, kind |-> kind]]
    /\ result' = [result EXCEPT ![t] = None]
    /\ phases' = [phases EXCEPT ![t] = <<>>]
    /\ pc' = [pc EXCEPT ![t] = "scrape"]
    /\ UNCHANGED <<today, holdings, cacheVars, selenium_lock, browsers, driver, resp, lookup, lastOp, regVars, fnVars, debug_pages, market>>

\* One user holds one stock; the other user holds nothing.
InitHoldings == {HoldingRow("h1", 1, 1, "AXISBANK", "axisbank", 10)}

\* https://www.screener.in/company/<ticker>/consolidated/
ScreenerUrl(ticker) == "https://www.screener.in/company/" \o ticker \o "/consolidated/"

\* The companies the holdings above were added under.
InitCompanies ==
    <<CompanyRow("Axis Bank Ltd", <<"AXISBANK">>,
                 [x \in {"AXISBANK"} |-> ScreenerUrl(x)],
                 "https://www.kotaksecurities.com/stocks/axis-bank-ltd/"),
      CompanyRow("ITC Ltd", <<"ITC">>,
                 [x \in {"ITC"} |-> ScreenerUrl(x)],
                 "https://www.kotaksecurities.com/stocks/itc-ltd/")>>

\* Company names: what the profile page of a ticker can show as its heading,
\* and what add_holding can be given as name.
CompanyNames == {"Axis Bank Ltd", "ITC Ltd", "Wipro", "Wipro Ltd", "WIPRO"}

\* What requests.get(url) of the profile page can give: it raises, or a
\* response with a status code and a page in which the heading's div is
\* found or not, and in it the h1 with its text or none.
ProfileAnswer(raises, status_code, div, h1) ==
    [raises |-> raises, status_code |-> status_code, div |-> div, h1 |-> h1]

\* No profile page was asked for in the call.
NoProfile == ProfileAnswer(FALSE, 0, FALSE, None)

\* The locals of a thread that is in neither get_stock_price nor add_holding.
NoCall ==
    [op |-> "none", user_id |-> 0, ticker |-> "", name |-> "", args |-> None,
     company_id |-> None, profile |-> NoProfile, probed |-> FALSE, status |-> 0]

NoOp == [op |-> "none"]

\* No call of find_working_kotak_url is under way.
NoProbe == [pc |-> "none"]

\* No call of get_kotak_price_from_url is under way.
NoQuote == [pc |-> "none"]

\* No call of parse_price is under way.
NoParse == [pc |-> "none"]

\* No call of _parse_quarterly_results is under way.
NoTable == [pc |-> "none"]

Init ==
    /\ today = 1
    /\ holdings = InitHoldings
    /\ ratios_cache = {}
    /\ quarterly_cache = {}
    /\ selenium_lock = None
    /\ browsers = [t \in Threads |-> 0]
    /\ pc = [t \in Threads |-> "idle"]
    /\ req = [t \in Threads |-> [user_id |-> 0, ticker |-> "AXISBANK", kind |-> "ratios"]]
    /\ driver = [t \in Threads |-> None]
    /\ result = [t \in Threads |-> None]
    /\ resp = [t \in Threads |-> Response(0, FALSE, None)]
    /\ lookup = [t \in Threads |-> {}]
    /\ phases = [t \in Threads |-> <<>>]
    /\ lastOp = NoOp
    /\ companies = InitCompanies
    /\ call = [t \in Threads |-> NoCall]
    /\ resolved = [n \in CompanyNames |-> {}]
    /\ probe = NoProbe
    /\ quote = NoQuote
    /\ parse = NoParse
    /\ qresults = NoTable
    /\ debug_pages = {}
    /\ market = NewColumns(holdings)

\* The scraper functions called concurrently.
NextScraper ==
    \/ \E t \in Threads : Call(t)
    \/ \E t \in Threads : AcquireLock(t)
    \/ \E t \in Threads : StartSession(t)
    \/ \E t \in Threads : Login(t)
    \/ \E t \in Threads : Navigate(t)
    \/ \E t \in Threads : Extract(t)
    \/ \E t \in Threads : Finally(t)
    \/ \E t \in Threads : ReleaseLock(t)

SpecScraper == Init /\ [][NextScraper]_vars

\* A step of the call thread t is in: taking the lock when it is free, or the
\* next step of the function body.
ThreadStep(t) ==
    \/ AcquireLock(t)
    \/ StartSession(t)
    \/ Login(t)
    \/ Navigate(t)
    \/ Extract(t)
    \/ Finally(t)
    \/ ReleaseLock(t)

\* Every thread keeps running: a step it can take for ever is taken (each
\* wait in the body is bounded by WebDriverWait's timeout). threading.Lock
\* promises no order among its waiters, and new calls may or may not come.
SpecScraperLive ==
    Init /\ [][NextScraper]_vars /\ \A t \in Threads : WF_vars(ThreadStep(t))

-----------------------------------------------------------------------------
(* app.py: get_stock_ratios / get_quarterly_results. Here the body of the   *)
(* scraper call, which runs under selenium_lock from StartSession to        *)
(* Finally, is one step.                                                    *)

\* get_stock_ratios / get_quarterly_results up to the scraper call: the cache
\* lookup, and the cached response on a hit.
Request(t) ==
    /\ pc[t] \in {"idle", "done"}
    /\ \E input \in RequestInputs, kind \in Kinds :
        LET user_id == input[1]
            ticker == upper(input[2])
            cached == get_cached_by_ticker(kind, ticker, user_id)
        IN  /\ req' = [req EXCEPT ![t] = [user_id |-> user_id, ticker |-> ticker, kind |-> kind]]
            /\ lookup' = [lookup EXCEPT ![t] = Stored(kind, ticker, user_id)]
            /\ IF Truthy(kind, cached)
               THEN /\ pc' = [pc EXCEPT ![t] = "done"]
                    /\ resp' = [resp EXCEPT ![t] = Response(200, TRUE, cached)]
               ELSE /\ pc' = [pc EXCEPT ![t] = "scrape"]
                    /\ resp' = [resp EXCEPT ![t] = Response(0, FALSE, None)]
    /\ UNCHANGED <<today, holdings, cacheVars, selenium_lock, browsers, driver, result, phases, lastOp, regVars, fnVars, debug_pages, market>>

\* The scraper call from the driver check to the end of its finally block:
\* it returns None, or what the parse of the page it reached gives. Every
\* session it launched is quit in it.
ScraperBody(t) ==
    /\ pc[t] = "locked"
    /\ \E r \in {None} \cup {ScrapeResult(req[t].kind, page) : page \in Pages(req[t].kind, req[t].ticker)} :
        /\ result' = [result EXCEPT ![t] = r]
        /\ IF r = None
           THEN debug_pages' \in {debug_pages} \cup AfterEmptyParse(req[t].kind, req[t].ticker)
           ELSE debug_pages' = debug_pages
    /\ pc' = [pc EXCEPT ![t] = "unlock"]
    /\ UNCHANGED <<today, holdings, cacheVars, selenium_lock, browsers, req, driver, resp, lookup, phases, lastOp, regVars, fnVars, market>>

\* The handler after the scraper call: save and answer, or 404.
Respond(t) ==
    /\ pc[t] = "returned"
    /\ IF Truthy(req[t].kind, result[t])
       THEN /\ ratios_cache' =
                 IF req[t].kind = "ratios"
                 THEN save_to_cache_by_ticker("ratios", req[t].ticker, result[t][1], req[t].user_id)
                 ELSE ratios_cache
            /\ quarterly_cache' =
                 IF req[t].kind = "quarterly"
                 THEN save_to_cache_by_ticker("quarterly", req[t].ticker, result[t][1], req[t].user_id)
                 ELSE quarterly_cache
            /\ resp' = [resp EXCEPT ![t] = Response(200, FALSE, result[t])]
       ELSE /\ resp' = [resp EXCEPT ![t] = Response(404, FALSE, None)]
            /\ UNCHANGED cacheVars
    /\ result' = [result EXCEPT ![t] = None]
    /\ pc' = [pc EXCEPT ![t] = "done"]
    /\ UNCHANGED <<today, holdings, selenium_lock, browsers, req, driver, lookup, phases, lastOp, regVars, fnVars, debug_pages, market>>

\* The local date changes: midnight passes, or the clock is set.
ClockChange ==
    /\ \E d \in Days \ {today} : today' = d
    /\ lastOp' = NoOp
    /\ UNCHANGED <<holdings, cacheVars, selenium_lock, browsers, threadVars, regVars, fnVars, debug_pages, market>>

Next ==
    \/ \E t \in Threads : Request(t)
    \/ \E t \in Threads : AcquireLock(t)
    \/ \E t \in Threads : ScraperBody(t)
    \/ \E t \in Threads : ReleaseLock(t)
    \/ \E t \in Threads : Respond(t)
    \/ ClockChange

Spec == Init /\ [][Next]_vars

-----------------------------------------------------------------------------
(* The cache accessors called directly: save_ratios_cache /                 *)
(* save_quarterly_cache with any payload and date, and                      *)
(* get_cached_ratios_by_ticker / get_cached_quarterly_by_ticker.            *)

\* Two users with one holding each.
CacheHoldings ==
    {HoldingRow("h1", 1, 1, "AXISBANK", "axisbank", 10),
     HoldingRow("h2", 2, 2, "ITC", "itc", 5)}

\* (kind, holding_id, user_id) of a put: both holdings with their owners,
\* both kinds for the first, and an id that is no holding.
PutSubjects ==
    {<<"ratios", "h1", 1>>, <<"ratios", "h2", 2>>,
     <<"quarterly", "h1", 1>>, <<"ratios", "h0", 1>>}

\* (kind, ticker, user_id) of a get: the entries put, and a stock the user
\* does not hold.
GetSubjects ==
    {<<"ratios", "axisbank", 1>>, <<"ratios", "ITC", 2>>,
     <<"quarterly", "AXISBANK", 1>>, <<"ratios", "ITC", 1>>}

\* The payloads put: an empty one and a populated one of each kind.
PutPayloads(kind) ==
    IF kind = "ratios"
    THEN {EmptyDict, SiteRatios("AXISBANK")}
    ELSE {[headers |-> <<>>, metrics |-> EmptyDict], SiteQuarterly("AXISBANK")}

\* save_ratios_cache / save_quarterly_cache(holding_id, data, cache_date,
\* updated_time, user_id), the entry stamped with the date it is saved under.
Put ==
    /\ \E subject \in PutSubjects, date \in Days :
        \E data \in PutPayloads(subject[1]) :
            LET kind == subject[1]
                holding_id == subject[2]
                row == CacheRow(subject[3], holding_id, json_dumps(kind, data), date, date)
                before == {r \in CacheTable(kind) : r.holding_id = holding_id}
                saved == save_cache(kind, holding_id, data, date, date, subject[3])
            IN  /\ ratios_cache' = IF kind = "ratios" THEN saved ELSE ratios_cache
                /\ quarterly_cache' = IF kind = "quarterly" THEN saved ELSE quarterly_cache
                /\ lastOp' = [op |-> "put", kind |-> kind, holding_id |-> holding_id,
                              data |-> data, date |-> date,
                              stored |-> ForeignKeysHold(row),
                              replaced |-> before \notin {{}, {row}}]
    /\ UNCHANGED <<today, holdings, selenium_lock, browsers, threadVars, regVars, fnVars, debug_pages, market>>

\* get_cached_ratios_by_ticker / get_cached_quarterly_by_ticker(ticker, user_id).
Get ==
    /\ \E subject \in GetSubjects :
        lastOp' = [op |-> "get", kind |-> subject[1], ticker |-> subject[2],
                   user_id |-> subject[3],
                   result |-> get_cached_by_ticker(subject[1], subject[2], subject[3]),
                   after |-> IF lastOp.op = "put" THEN lastOp ELSE NoOp]
    /\ UNCHANGED <<today, holdings, cacheVars, selenium_lock, browsers, threadVars, regVars, fnVars, debug_pages, market>>

InitCache ==
    /\ today = 1
    /\ holdings = CacheHoldings
    /\ ratios_cache = {}
    /\ quarterly_cache = {}
    /\ selenium_lock = None
    /\ browsers = [t \in Threads |-> 0]
    /\ pc = [t \in Threads |-> "idle"]
    /\ req = [t \in Threads |-> [user_id |-> 0, ticker |-> "AXISBANK", kind |-> "ratios"]]
    /\ driver = [t \in Threads |-> None]
    /\ result = [t \in Threads |-> None]
    /\ resp = [t \in Threads |-> Response(0, FALSE, None)]
    /\ lookup = [t \in Threads |-> {}]
    /\ phases = [t \in Threads |-> <<>>]
    /\ lastOp = NoOp
    /\ companies = InitCompanies
    /\ call = [t \in Threads |-> NoCall]
    /\ resolved = [n \in CompanyNames |-> {}]
    /\ probe = NoProbe
    /\ quote = NoQuote
    /\ parse = NoParse
    /\ qresults = NoTable
    /\ debug_pages = {}
    /\ market = NewColumns(holdings)

NextCache ==
    \/ Put
    \/ Get
    \/ ClockChange

SpecCache == InitCache /\ [][NextCache]_vars

-----------------------------------------------------------------------------
(* app.py: get_stock_price and add_holding, and the registry write          *)
(* get_or_create_company they share. Each step reads or writes the database *)
(* once; the HTTP requests between two steps touch no shared state.         *)

\* Shares one add_holding can bring a holding to in this model.
MaxQty == 2

\* The company argument of /api/stock-price.
PriceInputs == {"wipro", "507685"}

\* The JSON body of POST /api/holdings: with and without a name.
AddInputs ==
    {[user_id |-> 1, ticker |-> "WIPRO", name |-> None, quantity |-> 1],
     [user_id |-> 1, ticker |-> "wipro", name |-> Some("Wipro Ltd"), quantity |-> 1]}

\* h1.text.strip()
strip(text) ==
    CASE text = " Wipro Ltd " -> "Wipro Ltd"
      [] text = "  " -> ""
      [] OTHER -> text

ProfileAnswers ==
    {ProfileAnswer(TRUE, 0, FALSE, None),
     ProfileAnswer(FALSE, 404, TRUE, Some("Wipro")),
     ProfileAnswer(FALSE, 200, FALSE, None),
     ProfileAnswer(FALSE, 200, TRUE, None),
     ProfileAnswer(FALSE, 200, TRUE, Some("  ")),
     ProfileAnswer(FALSE, 200, TRUE, Some("Wipro")),
     ProfileAnswer(FALSE, 200, TRUE, Some(" Wipro Ltd "))}

\* A Stage A that reads the heading of whatever page it was answered with.
get_company_name_from_screener_AnyStatus(answer) ==
    IF answer.raises \/ ~answer.div \/ answer.h1 = None THEN None
    ELSE Some(strip(answer.h1[1]))

\* get_company_name_from_screener: the stripped text of the heading, or None
\* after an exception, a status other than 200, or a page without the div
\* or without the h1 in it.
get_company_name_from_screener(answer) ==
    IF answer.raises THEN None
    ELSE IF answer.status_code # 200 THEN None
    ELSE IF answer.div /\ answer.h1 # None THEN Some(strip(answer.h1[1]))
    ELSE None

\* find_working_kotak_url: (None, None), or the first candidate URL whose
\* page shows a price.
StageB(company_name) ==
    {None,
     Some(IF company_name = "Wipro"
          THEN "https://www.kotaksecurities.com/stocks/wipro/"
          ELSE "https://www.kotaksecurities.com/stocks/wipro-ltd/")}

\* screener_urls[ticker] = screener_url
SetItem(dict, key, value) ==
    [k \in DOMAIN dict \cup {key} |-> IF k = key THEN value ELSE dict[k]]

Args(tickers, screener_urls, kotak_url) ==
    Some([tickers |-> tickers, screener_urls |-> screener_urls, kotak_url |-> kotak_url])

\* The handler of thread t returns with this HTTP status.
Finish(t, status) ==
    /\ pc' = [pc EXCEPT ![t] = "done"]
    /\ call' = [call EXCEPT ![t] = [@ EXCEPT !.args = None, !.company_id = None,
                                               !.status = status]]

\* get_stock_price up to the end of Stage A: the lookup of the ticker, and
\* for an unknown ticker the fetch of its profile page.
PriceFirstFind(t) ==
    /\ pc[t] \in {"idle", "done"}
    /\ \E company \in PriceInputs :
        LET ticker == remove_spaces(upper(company))
            company_data == find_company_by_ticker(ticker)
        IN  IF company_data # None
            THEN /\ pc' = [pc EXCEPT ![t] = "done"]
                 /\ call' = [call EXCEPT ![t] =
                        [NoCall EXCEPT !.op = "price", !.ticker = ticker,
                                       !.name = company_data[1].name, !.status = 200]]
            ELSE \E answer \in ProfileAnswers :
                    LET company_name == get_company_name_from_screener(answer)
                    IN  IF company_name = None \/ company_name = Some("")
                        THEN /\ pc' = [pc EXCEPT ![t] = "done"]
                             /\ call' = [call EXCEPT ![t] =
                                    [NoCall EXCEPT !.op = "price", !.ticker = ticker,
                                                   !.profile = answer, !.status = 404]]
                        ELSE /\ pc' = [pc EXCEPT ![t] = "second_find"]
                             /\ call' = [call EXCEPT ![t] =
                                    [NoCall EXCEPT !.op = "price", !.ticker = ticker,
                                                   !.profile = answer,
                                                   !.name = company_name[1]]]
    /\ UNCHANGED <<today, holdings, cacheVars, selenium_lock, browsers, req, driver,
                   result, resp, lookup, phases, lastOp, companies, resolved, fnVars, debug_pages, market>>

\* get_stock_price from the lookup of the discovered name to the call of
\* get_or_create_company: the merge into the company found, or Stage B.
PriceSecondFind(t) ==
    /\ pc[t] = "second_find"
    /\ LET ticker == call[t].ticker
           company_name == call[t].name
           existing_company == find_company_by_ticker(upper(remove_spaces(company_name)))
       IN  IF existing_company # None
           THEN /\ pc' = [pc EXCEPT ![t] = "goc_select"]
                /\ call' = [call EXCEPT ![t].args =
                       Args(Append(existing_company[1].tickers, ticker),
                            SetItem(existing_company[1].screener_urls, ticker, ScreenerUrl(ticker)),
                            existing_company[1].kotak_url)]
           ELSE \E kotak_url \in StageB(company_name) :
                   IF kotak_url = None
                   THEN /\ pc' = [pc EXCEPT ![t] = "done"]
                        /\ call' = [call EXCEPT ![t] =
                               [@ EXCEPT !.probed = TRUE, !.status = 404]]
                   ELSE /\ pc' = [pc EXCEPT ![t] = "goc_select"]
                        /\ call' = [call EXCEPT ![t] =
                               [@ EXCEPT !.probed = TRUE,
                                         !.args = Args(<<ticker>>,
                                                       [k \in {ticker} |-> ScreenerUrl(ticker)],
                                                       kotak_url[1])]]
    /\ UNCHANGED <<today, holdings, cacheVars, selenium_lock, browsers, req, driver,
                   result, resp, lookup, phases, lastOp, companies, resolved, fnVars, debug_pages, market>>

\* Shares held by the user under the ticker.
HeldQty(ticker, user_id) ==
    LET existing_holding == find_existing_holding_by_ticker(ticker, user_id)
    IN  IF existing_holding = None THEN 0 ELSE existing_holding[1].quantity

\* add_holding calls under way.
AddsInFlight == {t \in Threads : call[t].op = "add" /\ pc[t] \notin {"idle", "done"}}

\* add_holding up to the call of get_or_create_company: the input checks and
\* the lookup of the ticker.
AddFind(t) ==
    /\ pc[t] \in {"idle", "done"}
    /\ \E input \in AddInputs :
        LET ticker == lower(input.ticker)
            company_name == IF input.name = None THEN upper(ticker) ELSE input.name[1]
            company_data == find_company_by_ticker(ticker)
            locals == [NoCall EXCEPT !.op = "add", !.user_id = input.user_id,
                                     !.ticker = ticker, !.name = company_name]
        IN  /\ HeldQty(ticker, input.user_id) + Cardinality(AddsInFlight) + input.quantity <= MaxQty
            /\ IF company_data = None
               THEN /\ pc' = [pc EXCEPT ![t] = "goc_select"]
                    /\ call' = [call EXCEPT ![t] =
                           [locals EXCEPT !.args =
                               Args(<<upper(ticker)>>,
                                    [k \in {upper(ticker)} |-> ScreenerUrl(upper(ticker))], "")]]
               ELSE /\ pc' = [pc EXCEPT ![t] = "holding_row"]
                    /\ call' = [call EXCEPT ![t] =
                           [locals EXCEPT !.company_id = Some(company_data[1].id)]]
    /\ UNCHANGED <<today, holdings, cacheVars, selenium_lock, browsers, req, driver,
                   result, resp, lookup, phases, lastOp, companies, resolved, fnVars, debug_pages, market>>

\* get_or_create_company: the SELECT by name.
GocSelect(t) ==
    /\ pc[t] = "goc_select"
    /\ pc' = [pc EXCEPT ![t] = "goc_write"]
    /\ call' = [call EXCEPT ![t].company_id = SelectCompanyId(call[t].name)]
    /\ UNCHANGED <<today, holdings, cacheVars, selenium_lock, browsers, req, driver,
                   result, resp, lookup, phases, lastOp, companies, resolved, fnVars, debug_pages, market>>

\* get_or_create_company: the UPDATE of the row selected or the INSERT of a
\* new one, and the commit; then the rest of get_stock_price. An INSERT the
\* UNIQUE constraint rejects raises, and the handler answers 500.
GocWrite(t) ==
    /\ pc[t] = "goc_write"
    /\ LET name == call[t].name
           args == call[t].args[1]
           written == /\ resolved' = [resolved EXCEPT ![name] = @ \cup {upper(call[t].ticker)}]
                      /\ IF call[t].op = "add"
                         THEN /\ pc' = [pc EXCEPT ![t] = "holding_row"]
                              /\ call' = [call EXCEPT ![t].company_id =
                                     IF call[t].company_id # None THEN @
                                     ELSE Some(Len(companies) + 1)]
                         ELSE Finish(t, 200)
       IN  IF call[t].company_id # None
           THEN /\ companies' = UpdateCompany(call[t].company_id[1], args.tickers,
                                              args.screener_urls, args.kotak_url)
                /\ written
           ELSE IF NameIsUnique(companies, name)
           THEN /\ companies' = InsertCompany(name, args.tickers, args.screener_urls,
                                              args.kotak_url)
                /\ written
           ELSE /\ Finish(t, 500)
                /\ UNCHANGED <<companies, resolved>>
    /\ UNCHANGED <<today, holdings, cacheVars, selenium_lock, browsers, req, driver,
                   result, resp, lookup, phases, lastOp, fnVars, debug_pages, market>>

\* os.urandom(8).hex(): an id no holding has.
NewHoldingId == CHOOSE id \in {"h1", "h2", "h3"} : \A h \in holdings : h.id # id

\* add_holding after the company is known: the purchase is added to the
\* user's holding of the ticker, or a holding is created.
AddHoldingRow(t) ==
    /\ pc[t] = "holding_row"
    /\ LET ticker == call[t].ticker
           user_id == call[t].user_id
           existing_holding == find_existing_holding_by_ticker(ticker, user_id)
       IN  holdings' =
              IF existing_holding # None
              THEN (holdings \ {existing_holding[1]})
                     \cup {[existing_holding[1] EXCEPT !.quantity = @ + 1]}
              ELSE holdings \cup {HoldingRow(NewHoldingId, user_id, call[t].company_id[1],
                                             upper(ticker), lower(ticker), 1)}
    /\ market' = [id \in {h.id : h \in holdings'} |->
                      IF id \in DOMAIN market THEN market[id]
                      ELSE NewColumns(holdings')[id]]
    /\ Finish(t, 201)
    /\ UNCHANGED <<today, cacheVars, selenium_lock, browsers, req, driver,
                   result, resp, lookup, phases, lastOp, companies, resolved, fnVars, debug_pages>>

\* A new database: no company, no holding.
InitReg ==
    /\ today = 1
    /\ holdings = {}
    /\ ratios_cache = {}
    /\ quarterly_cache = {}
    /\ selenium_lock = None
    /\ browsers = [t \in Threads |-> 0]
    /\ pc = [t \in Threads |-> "idle"]
    /\ req = [t \in Threads |-> [user_id |-> 0, ticker |-> "AXISBANK", kind |-> "ratios"]]
    /\ driver = [t \in Threads |-> None]
    /\ result = [t \in Threads |-> None]
    /\ resp = [t \in Threads |-> Response(0, FALSE, None)]
    /\ lookup = [t \in Threads |-> {}]
    /\ phases = [t \in Threads |-> <<>>]
    /\ lastOp = NoOp
    /\ companies = <<>>
    /\ call = [t \in Threads |-> NoCall]
    /\ resolved = [n \in CompanyNames |-> {}]
    /\ probe = NoProbe
    /\ quote = NoQuote
    /\ parse = NoParse
    /\ qresults = NoTable
    /\ debug_pages = {}
    /\ market = NewColumns(holdings)

NextReg ==
    \/ \E t \in Threads : PriceFirstFind(t)
    \/ \E t \in Threads : PriceSecondFind(t)
    \/ \E t \in Threads : AddFind(t)
    \/ \E t \in Threads : GocSelect(t)
    \/ \E t \in Threads : GocWrite(t)
    \/ \E t \in Threads : AddHoldingRow(t)

SpecReg == InitReg /\ [][NextReg]_vars

-----------------------------------------------------------------------------
(* app.py: find_working_kotak_url. A str is a sequence of one-character     *)
(* strings here, so that the slug of a name is computed as the code         *)
(* computes it.                                                             *)

\* \s and \w of the re module, over the characters names are made of.
Whitespace == {" ", "\t"}

WordChars == {"a", "b", "c", "d", "e", "i", "l", "m", "n", "o", "r", "s", "t", "u", "v", "y",
              "B", "C", "L", "S", "T", "_"}

\* str.lower() of one character.
lower_char(c) ==
    CASE c = "B" -> "b" [] c = "C" -> "c" [] c = "L" -> "l" [] c = "S" -> "s"
      [] c = "T" -> "t" [] OTHER -> c

str_lower(text) == [k \in DOMAIN text |-> lower_char(text[k])]

\* text.lstrip(chars), text.rstrip(chars), text.strip(chars)
RECURSIVE str_lstrip(_, _)
str_lstrip(text, chars) ==
    IF text # <<>> /\ Head(text) \in chars THEN str_lstrip(Tail(text), chars) ELSE text

RECURSIVE str_rstrip(_, _)
str_rstrip(text, chars) ==
    IF text # <<>> /\ text[Len(text)] \in chars
    THEN str_rstrip(SubSeq(text, 1, Len(text) - 1), chars)
    ELSE text

str_strip(text, chars) == str_rstrip(str_lstrip(text, chars), chars)

\* The position of the first ")" in text, 0 when it has none.
FirstClose(text) ==
    IF \E k \in DOMAIN text : text[k] = ")"
    THEN CHOOSE k \in DOMAIN text : text[k] = ")" /\ \A j \in 1..(k - 1) : text[j] # ")"
    ELSE 0

\* re.sub(r'\(([^)]*)\)', keep and r'\1' or '', text): every "(", up to the
\* first ")" after it, is replaced by what is between them or by nothing.
RECURSIVE sub_parens(_, _)
sub_parens(text, keep) ==
    IF text = <<>> THEN <<>>
    ELSE LET rest == Tail(text)
             close == FirstClose(rest)
         IN  IF Head(text) = "(" /\ close > 0
             THEN (IF keep THEN SubSeq(rest, 1, close - 1) ELSE <<>>)
                    \o sub_parens(SubSeq(rest, close + 1, Len(rest)), keep)
             ELSE <<Head(text)>> \o sub_parens(rest, keep)

\* re.sub(r'[^\w\s-]', '', text)
KeepsChar(c) == c \in WordChars \cup Whitespace \cup {"-"}

sub_other_chars(text) == SelectSeq(text, KeepsChar)

\* text.replace(' ', '-')
replace_spaces(text) == [k \in DOMAIN text |-> IF text[k] = " " THEN "-" ELSE text[k]]

\* re.sub(r'-+', '-', text) and re.sub(r'\s+', ' ', text): every run of
\* characters of the class becomes the one character.
RECURSIVE sub_runs(_, _, _)
sub_runs(text, class, one) ==
    IF text = <<>> THEN <<>>
    ELSE IF Head(text) \in class
    THEN <<one>> \o sub_runs(str_lstrip(text, class), class, one)
    ELSE <<Head(text)>> \o sub_runs(Tail(text), class, one)

format_for_url(text) ==
    str_strip(sub_runs(replace_spaces(sub_other_chars(sub_parens(str_lower(text), TRUE))),
                       {"-"}, "-"),
              {"-"})

\* text.endswith(suffix)
endswith(text, suffix) ==
    /\ Len(text) >= Len(suffix)
    /\ SubSeq(text, Len(text) - Len(suffix) + 1, Len(text)) = suffix

Ltd == <<" ", "L", "t", "d">>

Limited == <<" ", "L", "i", "m", "i", "t", "e", "d">>

\* A var3 that keeps the suffix.
without_suffix_Keep(text) == text

\* var3 / var4: the name without its " Ltd" or " Limited".
without_suffix(text) ==
    IF endswith(text, Ltd) THEN SubSeq(text, 1, Len(text) - 4)
    ELSE IF endswith(text, Limited) THEN SubSeq(text, 1, Len(text) - 8)
    ELSE text

\* re.sub(r'\([^)]*\)', '', text).strip() with its whitespace runs made one space.
without_parens(text) ==
    sub_runs(str_strip(sub_parens(text, FALSE), Whitespace), Whitespace, " ")

\* A builder that appends all four variations without comparing them.
create_base_url_variations_NoCheck(name) ==
    LET clean_name == str_strip(name, Whitespace)
    IN  <<format_for_url(clean_name),
          format_for_url(without_parens(clean_name)),
          format_for_url(without_suffix(clean_name)),
          format_for_url(without_parens(without_suffix(clean_name)))>>

create_base_url_variations(name) ==
    LET clean_name == str_strip(name, Whitespace)
        var1 == format_for_url(clean_name)
        var2 == format_for_url(without_parens(clean_name))
        var3 == format_for_url(without_suffix(clean_name))
        var4 == format_for_url(without_parens(without_suffix(clean_name)))
    IN  <<var1>>
          \o (IF var2 # var1 THEN <<var2>> ELSE <<>>)
          \o (IF var3 # var1 /\ var3 # var2 THEN <<var3>> ELSE <<>>)
          \o (IF var4 \notin {var1, var2, var3} THEN <<var4>> ELSE <<>>)

bse == <<"b", "s", "e", "-">>

\* all_variations = base_variations + [f"bse-{var}" for var in base_variations]
all_variations(company_name) ==
    LET base_variations == create_base_url_variations(company_name)
    IN  base_variations \o [k \in DOMAIN base_variations |-> bse \o base_variations[k]]

\* Longest name body, in characters, the variations are computed for.
MaxNameLen == 3

NameChars == {"a", "B", " ", "\t", "(", ")", "-", "&"}

TataConsultancyServicesLtd ==
    <<"T", "a", "t", "a", " ", "C", "o", "n", "s", "u", "l", "t", "a", "n", "c", "y", " ", "S", "e", "r", "v", "i", "c", "e", "s", " ", "L", "t", "d">>

\* Company names: every body of up to MaxNameLen characters, bare or followed
\* by " Ltd" or " Limited", and the name of the scenario.
Names ==
    {body \o suffix : body \in UNION {[1..n -> NameChars] : n \in 0..MaxNameLen},
                      suffix \in {<<>>, Ltd, Limited}}
      \cup {TataConsultancyServicesLtd}

\* return None, None
NotFound == [price |-> None, url |-> None]

\* find_working_kotak_url(company_name) is called.
InitVariations ==
    /\ today = 1
    /\ holdings = {}
    /\ ratios_cache = {}
    /\ quarterly_cache = {}
    /\ selenium_lock = None
    /\ browsers = [t \in Threads |-> 0]
    /\ pc = [t \in Threads |-> "idle"]
    /\ req = [t \in Threads |-> [user_id |-> 0, ticker |-> "AXISBANK", kind |-> "ratios"]]
    /\ driver = [t \in Threads |-> None]
    /\ result = [t \in Threads |-> None]
    /\ resp = [t \in Threads |-> Response(0, FALSE, None)]
    /\ lookup = [t \in Threads |-> {}]
    /\ phases = [t \in Threads |-> <<>>]
    /\ lastOp = NoOp
    /\ companies = <<>>
    /\ call = [t \in Threads |-> NoCall]
    /\ resolved = [n \in CompanyNames |-> {}]
    /\ \E company_name \in Names : probe = [pc |-> "called", company_name |-> company_name]
    /\ quote = NoQuote
    /\ parse = NoParse
    /\ qresults = NoTable
    /\ debug_pages = {}
    /\ market = NewColumns(holdings)

\* find_working_kotak_url up to its loop: the candidate list is built.
Variations ==
    /\ probe.pc = "called"
    /\ probe' = [pc |-> "probing", company_name |-> probe.company_name,
                 all_variations |-> all_variations(probe.company_name),
                 requested |-> <<>>, answers |-> <<>>, returned |-> NotFound]
    /\ UNCHANGED <<today, holdings, cacheVars, selenium_lock, browsers, threadVars,
                   lastOp, regVars, quote, parse, qresults, debug_pages, market>>

NextVariations == Variations

SpecVariations == InitVariations /\ [][NextVariations]_vars

\* The names the probing loop is run for: four, eight and two candidates.
ProbeNames ==
    {TataConsultancyServicesLtd, <<"(", "a", ")">> \o Ltd, <<"a">>}

\* f"https://www.kotaksecurities.com/stocks/{company_name_url}/"
KotakStockUrl(company_name_url) ==
    <<"https://www.kotaksecurities.com/stocks/", company_name_url, "/">>

\* What requests.get(url) can give: it raises, or a response with a status
\* code and a page in which the price div is absent or has a text.
Answer(raises, status_code, price_div) ==
    [raises |-> raises, status_code |-> status_code, price_div |-> price_div]

Answers ==
    {Answer(TRUE, 0, None),
     Answer(FALSE, 503, Some(<<"4", "2">>)),
     Answer(FALSE, 200, None),
     Answer(FALSE, 200, Some(<<" ", "4", "2", " ">>)),
     Answer(FALSE, 200, Some(<<>>))}

\* A loop that does not look at the status code.
Accepts_AnyStatus(answer) == ~answer.raises /\ answer.price_div # None

\* The loop body returns on this answer: no exception, status 200 and the
\* price div found.
Accepts(answer) ==
    /\ ~answer.raises
    /\ answer.status_code = 200
    /\ answer.price_div # None

InitProbe ==
    /\ today = 1
    /\ holdings = {}
    /\ ratios_cache = {}
    /\ quarterly_cache = {}
    /\ selenium_lock = None
    /\ browsers = [t \in Threads |-> 0]
    /\ pc = [t \in Threads |-> "idle"]
    /\ req = [t \in Threads |-> [user_id |-> 0, ticker |-> "AXISBANK", kind |-> "ratios"]]
    /\ driver = [t \in Threads |-> None]
    /\ result = [t \in Threads |-> None]
    /\ resp = [t \in Threads |-> Response(0, FALSE, None)]
    /\ lookup = [t \in Threads |-> {}]
    /\ phases = [t \in Threads |-> <<>>]
    /\ lastOp = NoOp
    /\ companies = <<>>
    /\ call = [t \in Threads |-> NoCall]
    /\ resolved = [n \in CompanyNames |-> {}]
    /\ \E company_name \in ProbeNames : probe = [pc |-> "called", company_name |-> company_name]
    /\ quote = NoQuote
    /\ parse = NoParse
    /\ qresults = NoTable
    /\ debug_pages = {}
    /\ market = NewColumns(holdings)

\* One iteration of the loop: the next candidate is requested, and the
\* function returns its price and URL or goes on to the one after it.
ProbeRequest ==
    /\ probe.pc = "probing"
    /\ Len(probe.requested) < Len(probe.all_variations)
    /\ \E answer \in Answers :
        LET url == KotakStockUrl(probe.all_variations[Len(probe.requested) + 1])
        IN  probe' = [probe EXCEPT
                        !.requested = Append(@, url),
                        !.answers = Append(@, answer),
                        !.pc = IF Accepts(answer) THEN "returned" ELSE @,
                        !.returned = IF Accepts(answer)
                                     THEN [price |-> Some(str_strip(answer.price_div[1], Whitespace)),
                                           url |-> Some(url)]
                                     ELSE @]
    /\ UNCHANGED <<today, holdings, cacheVars, selenium_lock, browsers, threadVars,
                   lastOp, regVars, quote, parse, qresults, debug_pages, market>>

\* The loop ends without a return: return None, None.
ProbeExhausted ==
    /\ probe.pc = "probing"
    /\ Len(probe.requested) = Len(probe.all_variations)
    /\ probe' = [probe EXCEPT !.pc = "returned", !.returned = NotFound]
    /\ UNCHANGED <<today, holdings, cacheVars, selenium_lock, browsers, threadVars,
                   lastOp, regVars, quote, parse, qresults, debug_pages, market>>

NextProbe ==
    \/ Variations
    \/ ProbeRequest
    \/ ProbeExhausted

SpecProbe == InitProbe /\ [][NextProbe]_vars

\* ---------------------------------------------------------------------------
\* app.py: get_kotak_price_from_url and its use by get_stock_price for a
\* ticker that is registered.
\* ---------------------------------------------------------------------------

Digits == {"0", "1", "2", "3", "4", "5", "6", "7", "8", "9"}

\* The regular-expression class [\d.]
DigitOrDot == Digits \cup {"."}

\* The regular-expression class [+-]
Sign == {"+", "-"}

\* The length of the longest run of characters of the class that starts at
\* position from of the text.
RECURSIVE RunLen(_, _, _)
RunLen(text, from, class) ==
    IF from > Len(text) \/ text[from] \notin class THEN 0
    ELSE 1 + RunLen(text, from + 1, class)

\* re.sub(r'[^\d.]', '', text)
sub_not_digit_or_dot(text) == SelectSeq(text, LAMBDA c : c \in DigitOrDot)

\* re.search(r'^([+-]?[\d.]+)', text): group 1 of the match, or None.
search_amount(text) ==
    LET from == IF text # <<>> /\ text[1] \in Sign THEN 2 ELSE 1
        run  == RunLen(text, from, DigitOrDot)
    IN  IF run = 0 THEN None ELSE Some(SubSeq(text, 1, from + run - 1))

\* The end of the match of \(([+-]?[\d.]+%)\) that starts at position at: the
\* position of its "%", or 0 when there is no match there.
PercentAt(text, at) ==
    LET from == IF at + 1 <= Len(text) /\ text[at + 1] \in Sign THEN at + 2 ELSE at + 1
        run  == RunLen(text, from, DigitOrDot)
        stop == from + run
    IN  IF /\ text[at] = "("
           /\ run > 0
           /\ stop + 1 <= Len(text)
           /\ text[stop] = "%"
           /\ text[stop + 1] = ")"
        THEN stop ELSE 0

\* re.search(r'\(([+-]?[\d.]+%)\)', text): group 1 of the leftmost match, or None.
search_percent(text) ==
    LET starts == {at \in DOMAIN text : PercentAt(text, at) > 0}
        at     == CHOOSE a \in starts : \A b \in starts : a <= b
    IN  IF starts = {} THEN None ELSE Some(SubSeq(text, at + 1, PercentAt(text, at)))

\* A truth test that nothing passes.
StrTruthy_Never(text) == FALSE

\* Python's truth value of a str-or-None.
StrTruthy(text) == text # None /\ text[1] # <<>>

\* value or default
StrOr(text, default) == IF StrTruthy(text) THEN text[1] ELSE default

\* The parts of a quote page the function looks at: the price container, if
\* any, with the texts of the price div and of the change div in it, if any;
\* and the text of the value cell of the "Prev. Close" row, if any.
QuotePage(price_container, prev_close) ==
    [price_container |-> price_container, prev_close |-> prev_close]

PriceContainer(price_div, change_div) ==
    [price_div |-> price_div, change_div |-> change_div]

\* What requests.get(kotak_url) and the parsing of its text can give: an
\* exception, or a response with a status code and a page.
QuoteAnswer(raises, status_code, page) ==
    [raises |-> raises, status_code |-> status_code, page |-> page]

PriceTexts == {None, Some(<<>>), Some(<<" ", "2", "4", "5", ".", "5", " ">>)}

ChangeTexts ==
    {None,
     Some(<<"+", "1", ".", "2", " ", "(", "0", ".", "5", "%", ")">>),
     Some(<<" ", "-", "3", "(", "-", "1", ".", "2", "%", ")", " ">>),
     Some(<<"(", "5", ")", " ", "n", "/", "a">>)}

PrevCloseTexts == {None, Some(<<" ", "1", ",", "2", "4", "0", ".", "5">>), Some(<<"-">>)}

QuotePages ==
    {QuotePage(price_container, prev_close) :
        price_container \in {None} \cup {Some(PriceContainer(price_div, change_div)) :
                                             price_div \in PriceTexts, change_div \in ChangeTexts},
        prev_close \in PrevCloseTexts}

FullPage ==
    QuotePage(Some(PriceContainer(Some(<<" ", "2", "4", "5", ".", "5", " ">>),
                                  Some(<<"+", "1", ".", "2", " ", "(", "0", ".", "5", "%", ")">>))),
              Some(<<" ", "1", ",", "2", "4", "0", ".", "5">>))

QuoteAnswers ==
    {QuoteAnswer(TRUE, 0, QuotePage(None, None)),
     QuoteAnswer(FALSE, 503, QuotePage(None, None)),
     QuoteAnswer(FALSE, 404, FullPage)}
    \cup {QuoteAnswer(FALSE, 200, page) : page \in QuotePages}

\* The dict the function returns when it got a page.
KotakData(price, previous_close, price_change_amount, price_change_percent) ==
    [price |-> price, previous_close |-> previous_close,
     price_change_amount |-> price_change_amount,
     price_change_percent |-> price_change_percent]

\* A function that parses whatever page it was answered with.
StatusOk_Any(status_code) == TRUE

\* The negation of  response.status_code != 200
StatusOk(status_code) == status_code = 200

\* get_kotak_price_from_url: None after an exception or a status other than
\* 200, and otherwise the dict of the four fields, each a text or None.
get_kotak_price_from_url(answer) ==
    LET page              == answer.page
        price_container   == page.price_container
        price_div         == IF price_container = None THEN None ELSE price_container[1].price_div
        change_div        == IF price_container = None THEN None ELSE price_container[1].change_div
        current_price     == IF price_div = None THEN None
                             ELSE Some(str_strip(price_div[1], Whitespace))
        price_change_full == IF change_div = None THEN None
                             ELSE Some(str_strip(change_div[1], Whitespace))
        prev_close_cleaned == sub_not_digit_or_dot(str_strip(page.prev_close[1], Whitespace))
        previous_close    == IF page.prev_close = None THEN None
                             ELSE IF prev_close_cleaned # <<>> THEN Some(prev_close_cleaned)
                             ELSE Some(<<"0">>)
        price_change_amount  == IF StrTruthy(price_change_full)
                                THEN search_amount(str_strip(price_change_full[1], Whitespace))
                                ELSE None
        price_change_percent == IF StrTruthy(price_change_full)
                                THEN search_percent(price_change_full[1])
                                ELSE None
    IN  IF answer.raises THEN None
        ELSE IF ~StatusOk(answer.status_code) THEN None
        ELSE Some(KotakData(current_price, previous_close,
                            price_change_amount, price_change_percent))

\* The five-key body get_stock_price builds from a quote.
PriceBody(name, kotak_data) ==
    [name |-> name,
     price |-> kotak_data.price[1],
     previous_close |-> StrOr(kotak_data.previous_close, <<"0">>),
     price_change_amount |-> StrOr(kotak_data.price_change_amount, <<"0">>),
     price_change_percent |-> StrOr(kotak_data.price_change_percent, <<"0", "%">>)]

\* jsonify(response_data), status 200
JsonResponse(status, body) == [status |-> status, body |-> body]

\* The tickers get_stock_price is asked for: both are registered.
QuoteTickers == {"AXISBANK", "ITC"}

InitQuote ==
    /\ today = 1
    /\ holdings = {}
    /\ ratios_cache = {}
    /\ quarterly_cache = {}
    /\ selenium_lock = None
    /\ browsers = [t \in Threads |-> 0]
    /\ pc = [t \in Threads |-> "idle"]
    /\ req = [t \in Threads |-> [user_id |-> 0, ticker |-> "AXISBANK", kind |-> "ratios"]]
    /\ driver = [t \in Threads |-> None]
    /\ result = [t \in Threads |-> None]
    /\ resp = [t \in Threads |-> Response(0, FALSE, None)]
    /\ lookup = [t \in Threads |-> {}]
    /\ phases = [t \in Threads |-> <<>>]
    /\ lastOp = NoOp
    /\ companies = InitCompanies
    /\ call = [t \in Threads |-> NoCall]
    /\ resolved = [n \in CompanyNames |-> {}]
    /\ probe = NoProbe
    /\ parse = NoParse
    /\ qresults = NoTable
    /\ debug_pages = {}
    /\ market = NewColumns(holdings)
    /\ \E ticker \in QuoteTickers :
           quote = [pc |-> "called", company_data |-> find_company_by_ticker(ticker)[1]]

\* kotak_data = get_kotak_price_from_url(company_data['kotak_url']), the
\* site answering with one of the given answers.
FetchQuoteFrom(answers) ==
    /\ quote.pc = "called"
    /\ \E answer \in answers :
           quote' = [pc |-> "fetched", company_data |-> quote.company_data,
                     kotak_url |-> quote.company_data.kotak_url,
                     answer |-> answer,
                     kotak_data |-> get_kotak_price_from_url(answer)]
    /\ UNCHANGED <<today, holdings, cacheVars, selenium_lock, browsers, threadVars,
                   lastOp, regVars, probe, parse, qresults, debug_pages, market>>

FetchQuote == FetchQuoteFrom(QuoteAnswers)

\* The rest of get_stock_price for a registered ticker: the body is filled
\* when the quote is there and has a price, and jsonify(response_data) is
\* returned either way.
PriceRespond ==
    /\ quote.pc = "fetched"
    /\ LET kotak_data    == quote.kotak_data
           response_data == IF kotak_data # None /\ StrTruthy(kotak_data[1].price)
                            THEN PriceBody(quote.company_data.name, kotak_data[1])
                            ELSE EmptyDict
       IN  quote' = [pc |-> "responded", company_data |-> quote.company_data,
                     kotak_url |-> quote.kotak_url,
                     answer |-> quote.answer,
                     kotak_data |-> kotak_data,
                     response |-> JsonResponse(200, response_data)]
    /\ UNCHANGED <<today, holdings, cacheVars, selenium_lock, browsers, threadVars,
                   lastOp, regVars, probe, parse, qresults, debug_pages, market>>

NextQuote ==
    \/ FetchQuote
    \/ PriceRespond

SpecQuote == InitQuote /\ [][NextQuote]_vars

\* ---------------------------------------------------------------------------
\* One client asking for ratios, quarterly results and prices of registered
\* tickers: get_stock_ratios / get_quarterly_results with the scraper call,
\* and get_stock_price, over the same tables.
\* ---------------------------------------------------------------------------

\* The client's thread.
Client == "t1"

\* What the quote site answers in this specification: the request fails, or
\* the page comes with all its fields.
FrameAnswers == {QuoteAnswer(TRUE, 0, QuotePage(None, None)), QuoteAnswer(FALSE, 200, FullPage)}

\* get_stock_price up to the lookup of a ticker that is registered.
PriceRequest ==
    /\ quote.pc \in {"none", "responded"}
    /\ \E company \in QuoteTickers :
           LET ticker       == remove_spaces(upper(company))
               company_data == find_company_by_ticker(ticker)
           IN  /\ company_data # None
               /\ quote' = [pc |-> "called", company_data |-> company_data[1]]
    /\ UNCHANGED <<today, holdings, cacheVars, selenium_lock, browsers, threadVars,
                   lastOp, regVars, probe, parse, qresults, debug_pages, market>>

NextFrame ==
    \/ Request(Client)
    \/ AcquireLock(Client)
    \/ ScraperBody(Client)
    \/ ReleaseLock(Client)
    \/ Respond(Client)
    \/ ClockChange
    \/ PriceRequest
    \/ FetchQuoteFrom(FrameAnswers)
    \/ PriceRespond

SpecFrame == Init /\ [][NextFrame]_vars

\* ---------------------------------------------------------------------------
\* app.py: parse_price
\* ---------------------------------------------------------------------------

\* The longest string parse_price is called with.
MaxPriceLen == 3

\* The characters of those strings: digits, the decimal point, and others.
PriceChars == {"0", "5", ".", "a", "-"}

\* A float with a finite decimal expansion: num / 10^scale, with no trailing
\* zero in the fraction.
RECURSIVE Float(_, _)
Float(num, scale) ==
    IF scale > 0 /\ num % 10 = 0 THEN Float(num \div 10, scale - 1)
    ELSE [num |-> num, scale |-> scale]

\* A Python value: None, a number (int or float), or a str.
PyNone == [type |-> "NoneType", number |-> Float(0, 0), str |-> <<>>]
PyNumber(number) == [type |-> "number", number |-> number, str |-> <<>>]
PyStr(str) == [type |-> "str", number |-> Float(0, 0), str |-> str]

\* The strings of at most n characters.
RECURSIVE PriceStrings(_)
PriceStrings(n) ==
    IF n = 0 THEN {<<>>}
    ELSE LET shorter == PriceStrings(n - 1)
         IN  shorter \cup {Append(text, c) : text \in shorter, c \in PriceChars}

\* What parse_price is called with.
PriceValues ==
    {PyNone, PyNumber(Float(0, 0)), PyNumber(Float(7, 0)), PyNumber(Float(-25, 1))}
    \cup {PyStr(text) : text \in PriceStrings(MaxPriceLen)}

DigitValue(c) ==
    CASE c = "0" -> 0 [] c = "1" -> 1 [] c = "2" -> 2 [] c = "3" -> 3 [] c = "4" -> 4
      [] c = "5" -> 5 [] c = "6" -> 6 [] c = "7" -> 7 [] c = "8" -> 8 [] c = "9" -> 9

\* int(digits) for a string of digits, 0 for the empty one.
RECURSIVE DigitsValue(_)
DigitsValue(digits) ==
    IF digits = <<>> THEN 0
    ELSE 10 * DigitsValue(SubSeq(digits, 1, Len(digits) - 1)) + DigitValue(digits[Len(digits)])

\* A call that returned a value, and a call that raised.
Returned(value) == [raises |-> "", value |-> Some(value)]
Raised(exception) == [raises |-> exception, value |-> None]

\* float(text) for a string of digits and points: the number it writes, or
\* ValueError when it has no digit or more than one point.
float(text) ==
    LET points == {i \in DOMAIN text : text[i] = "."}
        digits == SelectSeq(text, LAMBDA c : c \in Digits)
        scale  == IF points = {} THEN 0 ELSE Len(text) - (CHOOSE i \in points : TRUE)
    IN  IF digits = <<>> \/ Cardinality(points) > 1 THEN Raised("ValueError")
        ELSE Returned(Float(DigitsValue(digits), scale))

\* parse_price(value)
parse_price(value) ==
    LET cleaned == sub_not_digit_or_dot(value.str)
    IN  IF value.type = "NoneType" THEN Returned(Float(0, 0))
        ELSE IF value.type = "number" THEN Returned(value.number)
        ELSE IF cleaned # <<>> THEN float(cleaned)
        ELSE Returned(Float(0, 0))

InitParse ==
    /\ today = 1
    /\ holdings = {}
    /\ ratios_cache = {}
    /\ quarterly_cache = {}
    /\ selenium_lock = None
    /\ browsers = [t \in Threads |-> 0]
    /\ pc = [t \in Threads |-> "idle"]
    /\ req = [t \in Threads |-> [user_id |-> 0, ticker |-> "AXISBANK", kind |-> "ratios"]]
    /\ driver = [t \in Threads |-> None]
    /\ result = [t \in Threads |-> None]
    /\ resp = [t \in Threads |-> Response(0, FALSE, None)]
    /\ lookup = [t \in Threads |-> {}]
    /\ phases = [t \in Threads |-> <<>>]
    /\ lastOp = NoOp
    /\ companies = <<>>
    /\ call = [t \in Threads |-> NoCall]
    /\ resolved = [n \in CompanyNames |-> {}]
    /\ probe = NoProbe
    /\ quote = NoQuote
    /\ \E value \in PriceValues : parse = [pc |-> "called", value |-> value]
    /\ qresults = NoTable
    /\ debug_pages = {}
    /\ market = NewColumns(holdings)

\* The call runs to its return or to the exception that leaves it.
ParsePrice ==
    /\ parse.pc = "called"
    /\ parse' = [pc |-> "done", value |-> parse.value, outcome |-> parse_price(parse.value)]
    /\ UNCHANGED <<today, holdings, cacheVars, selenium_lock, browsers, threadVars,
                   lastOp, regVars, probe, quote, qresults, debug_pages, market>>

NextParse == ParsePrice

SpecParse == InitParse /\ [][NextParse]_vars

\* ---------------------------------------------------------------------------
\* scraper.py: _parse_quarterly_results
\* ---------------------------------------------------------------------------

\* The most th cells in the header row, rows in the body, and td cells in a row.
MaxTh == 3
MaxRows == 2
MaxCells == 3

\* The sequences of at most n elements of a set.
RECURSIVE SeqsUpTo(_, _)
SeqsUpTo(set, n) ==
    IF n = 0 THEN {<<>>}
    ELSE LET shorter == SeqsUpTo(set, n - 1)
         IN  shorter \cup {Append(seq, x) : seq \in shorter, x \in set}

\* cell.get_text(strip=True) of a cell with one text in it.
get_text_strip(text) == str_strip(text, Whitespace)

\* re.sub(r'\s*\+\s*$', '', metric_name)
sub_trailing_plus(text) ==
    LET stripped == str_rstrip(text, Whitespace)
    IN  IF stripped # <<>> /\ stripped[Len(stripped)] = "+"
        THEN str_rstrip(SubSeq(stripped, 1, Len(stripped) - 1), Whitespace)
        ELSE text

\* seq[from:to] of Python, for 0 <= from <= to.
Slice(seq, from, to) ==
    SubSeq(seq, from + 1, IF to < Len(seq) THEN to ELSE Len(seq))

\* The texts of the th cells, of the first td of a row, and of its other tds.
ThTexts == {<<>>, <<" ">>, <<"M", "a", "r">>}
NameTexts == {<<"S">>, <<"S", " ", "+">>}
ValueTexts == {<<>>, <<"1">>}

\* A tr of the body: whether it has the class font-size-14, and its td cells.
BodyRow(font_size_14, cells) == [font_size_14 |-> font_size_14, cells |-> cells]

BodyRows ==
    {BodyRow(font_size_14, cells) :
        font_size_14 \in BOOLEAN,
        cells \in {<<>>} \cup {<<name>> \o values :
                                  name \in NameTexts,
                                  values \in SeqsUpTo(ValueTexts, MaxCells - 1)}}

\* The table with the class data-table: the th cells of the first row of its
\* thead and the rows of its tbody, each None when the element is missing.
DataTable(thead, tbody) == [thead |-> thead, tbody |-> tbody]

\* The page: whether it has the section with id quarters, and the table in it.
ResultsPage(quarters_section, data_table) ==
    [quarters_section |-> quarters_section, data_table |-> data_table]

ResultsPages ==
    {ResultsPage(FALSE, None), ResultsPage(TRUE, None),
     ResultsPage(TRUE, Some(DataTable(None, Some(<<>>)))),
     ResultsPage(TRUE, Some(DataTable(Some(<<>>), None)))}
    \cup {ResultsPage(TRUE, Some(DataTable(Some(ths), Some(rows)))) :
              ths \in SeqsUpTo(ThTexts, MaxTh), rows \in SeqsUpTo(BodyRows, MaxRows)}

\* headers: the non-empty texts of the th cells after the first.
Headers(ths) ==
    SelectSeq([i \in 1..(Len(ths) - 1) |-> get_text_strip(ths[i + 1])],
              LAMBDA quarter : quarter # <<>>)

\* values: the texts of cells[1:len(headers)+1]
Values(cells, headers) ==
    LET taken == Slice(cells, 1, Len(headers) + 1)
    IN  [i \in DOMAIN taken |-> get_text_strip(taken[i])]

\* quarterly_data['metrics'] after the loop over the rows.
RECURSIVE Metrics(_, _)
Metrics(rows, headers) ==
    IF rows = <<>> THEN EmptyDict
    ELSE LET before == Metrics(SubSeq(rows, 1, Len(rows) - 1), headers)
             row    == rows[Len(rows)]
         IN  IF row.font_size_14 \/ Len(row.cells) < 2 THEN before
             ELSE SetItem(before,
                          sub_trailing_plus(get_text_strip(row.cells[1])),
                          Values(row.cells, headers))

\* _parse_quarterly_results: None when the section, the table, its thead or
\* its tbody is missing (the last two by the exception handler), and
\* otherwise the dict of headers and metrics.
parse_quarterly_results(page) ==
    IF ~page.quarters_section THEN None
    ELSE IF page.data_table = None THEN None
    ELSE IF page.data_table[1].thead = None \/ page.data_table[1].tbody = None THEN None
    ELSE LET headers == Headers(page.data_table[1].thead[1])
         IN  Some([headers |-> headers,
                   metrics |-> Metrics(page.data_table[1].tbody[1], headers)])

InitQuarterly ==
    /\ today = 1
    /\ holdings = {}
    /\ ratios_cache = {}
    /\ quarterly_cache = {}
    /\ selenium_lock = None
    /\ browsers = [t \in Threads |-> 0]
    /\ pc = [t \in Threads |-> "idle"]
    /\ req = [t \in Threads |-> [user_id |-> 0, ticker |-> "AXISBANK", kind |-> "ratios"]]
    /\ driver = [t \in Threads |-> None]
    /\ result = [t \in Threads |-> None]
    /\ resp = [t \in Threads |-> Response(0, FALSE, None)]
    /\ lookup = [t \in Threads |-> {}]
    /\ phases = [t \in Threads |-> <<>>]
    /\ lastOp = NoOp
    /\ companies = <<>>
    /\ call = [t \in Threads |-> NoCall]
    /\ resolved = [n \in CompanyNames |-> {}]
    /\ probe = NoProbe
    /\ quote = NoQuote
    /\ parse = NoParse
    /\ \E page \in ResultsPages : qresults = [pc |-> "called", page |-> page]
    /\ debug_pages = {}
    /\ market = NewColumns(holdings)

\* The call runs to its return.
ParseQuarterly ==
    /\ qresults.pc = "called"
    /\ qresults' = [pc |-> "done", page |-> qresults.page,
                    quarterly_data |-> parse_quarterly_results(qresults.page)]
    /\ UNCHANGED <<today, holdings, cacheVars, selenium_lock, browsers, threadVars,
                   lastOp, regVars, probe, quote, parse, debug_pages, market>>

NextQuarterly == ParseQuarterly

SpecQuarterly == InitQuarterly /\ [][NextQuarterly]_vars

-----------------------------------------------------------------------------
(* app.py: get_holdings, and database.py: update_holding_prices. One        *)
(* request refreshes every holding of the user; what the quote site         *)
(* answers for each of them is the request's input.                         *)

Rupee == "₹"

\* kotak_data[...] for the column a field is stored in.
QuoteField(kotak_data, column) ==
    CASE column = "marketPrice"        -> kotak_data.price
      [] column = "previousClose"      -> kotak_data.previous_close
      [] column = "priceChangeAmount"  -> kotak_data.price_change_amount
      [] column = "priceChangePercent" -> kotak_data.price_change_percent

\* The dict price_updates of get_holdings: a key for every field of the
\* quote that is truthy, the price with the rupee sign before it.
price_updates(kotak_data) ==
    [column \in {c \in {"marketPrice", "previousClose", "priceChangeAmount",
                        "priceChangePercent"} : StrTruthy(QuoteField(kotak_data, c))} |->
        IF column = "marketPrice" THEN <<Rupee>> \o kotak_data.price[1]
        ELSE QuoteField(kotak_data, column)[1]]

\* price_data.get(key): None for a key the dict has not.
dict_get(price_data, key) ==
    IF key \in DOMAIN price_data THEN Some(price_data[key]) ELSE None

\* update_holding_prices: UPDATE holdings SET marketPrice = ?, previousClose
\* = ?, priceChangeAmount = ?, priceChangePercent = ? WHERE id = ?, with
\* price_data.get(...) for each of the four.
update_holding_prices(columns, holding_id, price_data) ==
    IF holding_id \in DOMAIN columns
    THEN [columns EXCEPT ![holding_id] =
            MarketColumns(dict_get(price_data, "marketPrice"),
                          dict_get(price_data, "previousClose"),
                          dict_get(price_data, "priceChangeAmount"),
                          dict_get(price_data, "priceChangePercent"))]
    ELSE columns

\* get_all_holdings(user_id)
get_all_holdings(user_id) == {h \in holdings : h.user_id = user_id}

\* The quote get_holdings fetched for a holding: None when the ticker is not
\* registered or when get_kotak_price_from_url returned None.
HoldingQuote(holding, answer) ==
    IF find_company_by_ticker(holding.ticker) = None THEN None
    ELSE get_kotak_price_from_url(answer)

\* The body of the loop of get_holdings for one holding: the columns after it.
RefreshHolding(columns, holding, answer) ==
    LET kotak_data == HoldingQuote(holding, answer)
    IN  IF kotak_data = None THEN columns
        ELSE IF DOMAIN price_updates(kotak_data[1]) = {} THEN columns
        ELSE update_holding_prices(columns, holding.id, price_updates(kotak_data[1]))

\* GET /api/holdings by an authenticated user: the loop over the user's
\* holdings, each with the answer the quote site gave for it.
GetHoldings(user_id) ==
    /\ \E answers \in [{h.id : h \in get_all_holdings(user_id)} -> QuoteAnswers] :
         /\ market' = [id \in DOMAIN market |->
                          IF id \in DOMAIN answers
                          THEN LET holding == CHOOSE h \in holdings : h.id = id
                               IN  RefreshHolding(market, holding, answers[id])[id]
                          ELSE market[id]]
         /\ lastOp' = [op |-> "get_holdings", user_id |-> user_id,
                       kotak_data |-> [id \in DOMAIN answers |->
                                          HoldingQuote(CHOOSE h \in holdings : h.id = id,
                                                       answers[id])]]
    /\ UNCHANGED <<today, holdings, cacheVars, selenium_lock, browsers, threadVars,
                   regVars, fnVars, debug_pages>>

NextRefresh == \E user_id \in Users : GetHoldings(user_id)

SpecRefresh == InitCache /\ [][NextRefresh]_vars

-----------------------------------------------------------------------------
(* app.py: sell_holding_quantity, and database.py: sell_holding_shares.     *)
(* The request carries the token of a user, the id of a holding in its URL  *)
(* and sellQuantity in its body.                                            *)

\* The ids a PATCH /api/holdings/<holding_id> names: the two holdings, and
\* an id that is no holding.
SellIds == {"h1", "h2", "h0"}

\* request.json.get("sellQuantity", 0)
SellQuantities == {0, 4, 10}

\* sell_holding_shares(holding_id, sell_quantity): the table holdings after
\* the call. The row is looked up by its id alone.
sell_holding_shares(holding_id, sell_quantity) ==
    LET found == {h \in holdings : h.id = holding_id}
        row == CHOOSE h \in found : TRUE
    IN  IF found = {} THEN holdings
        ELSE IF sell_quantity >= row.quantity THEN holdings \ {row}
        ELSE (holdings \ {row}) \cup {[row EXCEPT !.quantity = @ - sell_quantity]}

\* FOREIGN KEY (holding_id) REFERENCES holdings (id) ON DELETE CASCADE: the
\* rows of a cache table whose holding is still there.
OnDeleteCascade(cache, rows) ==
    {r \in cache : \E h \in rows : h.id = r.holding_id}

\* PATCH /api/holdings/<holding_id> by the authenticated user user_id.
SellHoldingQuantity(user_id) ==
    /\ \E holding_id \in SellIds, sell_quantity \in SellQuantities :
         LET success == \E h \in holdings : h.id = holding_id
             after == IF sell_quantity <= 0 THEN holdings
                      ELSE sell_holding_shares(holding_id, sell_quantity)
             remaining_holding == \E h \in after : h.id = holding_id
         IN  /\ holdings' = after
             /\ ratios_cache' = OnDeleteCascade(ratios_cache, after)
             /\ quarterly_cache' = OnDeleteCascade(quarterly_cache, after)
             /\ market' = [id \in {h.id : h \in after} |-> market[id]]
             /\ lastOp' = [op |-> "sell", user_id |-> user_id,
                           holding_id |-> holding_id, sell_quantity |-> sell_quantity,
                           status |-> IF sell_quantity <= 0 THEN 400
                                      ELSE IF ~success THEN 404 ELSE 200,
                           removed |-> sell_quantity > 0 /\ success /\ ~remaining_holding]
    /\ UNCHANGED <<today, selenium_lock, browsers, threadVars, regVars, fnVars, debug_pages>>

NextSell ==
    \/ Put
    \/ \E user_id \in Users : SellHoldingQuantity(user_id)

SpecSell == InitCache /\ [][NextSell]_vars

-----------------------------------------------------------------------------
(* Claims *)

RECURSIVE SumOver(_, _)
SumOver(f, S) ==
    IF S = {} THEN 0
    ELSE LET x == CHOOSE x \in S : TRUE IN f[x] + SumOver(f, S \ {x})

\* Has(seq, e): e is one of the elements of seq.
Has(seq, e) == \E i \in 1..Len(seq) : seq[i] = e

\* C1: in every interleaving of scrape_screener_ratios and
\* scrape_quarterly_results calls at most one browser session is live
\* (launched and not yet quit), and the thread that launched a live session
\* holds selenium_lock.
C1_OneSession ==
    /\ SumOver(browsers, Threads) <= 1
    /\ \A t \in Threads : browsers[t] > 0 => selenium_lock = Some(t)

\* A session is live while another call waits for the lock.
C1_Witness ==
    \E t, u \in Threads :
        /\ t # u
        /\ browsers[t] = 1
        /\ pc[t] = "extract"
        /\ pc[u] = "scrape"

\* C2: when a scraper call has returned, whatever its exit (data, login
\* failure, empty extraction, an exception at any step), every session it
\* launched has been quit and it no longer holds selenium_lock.
C2_NoLeak ==
    \A t \in Threads :
        pc[t] \in {"idle", "returned"} =>
            /\ browsers[t] = 0
            /\ selenium_lock # Some(t)

\* A call has returned None after an exception in a launched session, while
\* the other thread has returned data from its own session.
C2_Witness ==
    \E t, u \in Threads :
        /\ pc[t] = "returned"
        /\ Has(phases[t], "launched")
        /\ Has(phases[t], "navigate_raised")
        /\ result[t] = None
        /\ pc[u] = "returned"
        /\ Has(phases[u], "extracted")
        /\ result[u] # None

\* C3: a ratios or quarterly request is answered from the cache only with a
\* stored entry whose cache_date is the day of the request; an entry of any
\* other day, past or future, is a miss.
C3_HitOnlyToday ==
    \A t \in Threads :
        (pc[t] = "done" /\ resp[t].cached) =>
            \E e \in lookup[t] :
                /\ e.age = "today"
                /\ resp[t].data = Some(json_loads(req[t].kind, e.data))

\* One request is answered from today's entry while another, which found
\* only an entry dated in the future, goes on to the scraper.
C3_Witness ==
    \E t, u \in Threads :
        /\ pc[t] = "done" /\ resp[t].cached
        /\ pc[u] = "scrape"
        /\ lookup[u] # {}
        /\ \A e \in lookup[u] : e.age = "future"

\* C4: a request whose user holds the ticker with an entry of that kind dated
\* today is answered with the cached payload and does not go on to the
\* scraper.
C4_ScrapeOnlyOnMiss ==
    \A t \in Threads :
        \A e \in lookup[t] :
            e.age = "today" =>
                /\ pc[t] = "done"
                /\ resp[t] = Response(200, TRUE, Some(json_loads(req[t].kind, e.data)))

\* A request is answered from the cache while the other thread runs a scraper
\* session for the same user, ticker and kind.
C4_Witness ==
    \E t, u \in Threads :
        /\ pc[t] = "done" /\ resp[t].cached
        /\ \E e \in lookup[t] : e.age = "today"
        /\ pc[u] = "locked"
        /\ req[u] = req[t]

\* The entries of one kind stored for one holding id.
Rows(kind, holding_id) == {r \in CacheTable(kind) : r.holding_id = holding_id}

HoldingIds == {"h0", "h1", "h2"}

\* The get just made asked for the entry the put before it stored.
GetFollowsPut ==
    /\ lastOp.op = "get"
    /\ lastOp.after.op = "put"
    /\ lastOp.after.stored
    /\ lastOp.after.kind = lastOp.kind
    /\ \E h \in holdings : /\ h.id = lastOp.after.holding_id
                           /\ h.user_id = lastOp.user_id
                           /\ h.symbol = upper(lastOp.ticker)

\* C5: a get made immediately after a put, for the same holding and kind,
\* where the put's date is today's date, is a hit and returns exactly the
\* payload that was put.
C5_PutThenGet ==
    (GetFollowsPut /\ lastOp.after.date = today)
        => lastOp.result = Some(lastOp.after.data)

\* A populated entry of another day is replaced by an empty payload dated
\* today, and the get that follows returns the empty payload.
C5_Witness ==
    /\ GetFollowsPut
    /\ lastOp.after.date = today
    /\ lastOp.after.replaced
    /\ lastOp.kind = "ratios"
    /\ lastOp.after.data = EmptyDict
    /\ lastOp.result = Some(EmptyDict)

\* C6: at most one entry per holding and kind.
C6_OneEntry ==
    \A kind \in Kinds, h \in HoldingIds : Cardinality(Rows(kind, h)) <= 1

\* C6: after a put the entry holds the payload and date of that put, nothing
\* of the entry before it.
C6_LastPut ==
    (lastOp.op = "put" /\ lastOp.stored) =>
        Rows(lastOp.kind, lastOp.holding_id) =
            {r \in CacheTable(lastOp.kind) :
                /\ r.holding_id = lastOp.holding_id
                /\ json_loads(lastOp.kind, r.data) = lastOp.data
                /\ r.cache_date = lastOp.date}
        /\ Rows(lastOp.kind, lastOp.holding_id) # {}

\* C6: a put leaves the entries of other holdings and of the other kind as
\* they were.
C6_Frame ==
    lastOp'.op = "put" =>
        \A kind \in Kinds, h \in HoldingIds :
            (kind # lastOp'.kind \/ h # lastOp'.holding_id)
                => Rows(kind, h)' = Rows(kind, h)

\* C6: a put replaces the whole previous entry for that holding and kind: at
\* most one entry exists per holding and kind, it carries the payload and
\* date of the last put with nothing merged from earlier entries, and the
\* entries of other holdings and of the other kind are unchanged by it.
C6_PutReplaces == [](C6_OneEntry /\ C6_LastPut) /\ [][C6_Frame]_vars

\* A populated ratios entry of the first holding has just been replaced by
\* an empty payload while the other holding's ratios entry and the first
\* holding's quarterly entry are stored.
C6_Witness ==
    /\ lastOp.op = "put"
    /\ lastOp.stored
    /\ lastOp.replaced
    /\ lastOp.kind = "ratios"
    /\ lastOp.holding_id = "h1"
    /\ lastOp.data = EmptyDict
    /\ Rows("ratios", "h2") # {}
    /\ Rows("quarterly", "h1") # {}

\* Thread t's handler answers 200 with the payload it has just scraped.
AnswersScrape(t) ==
    /\ pc[t] = "returned"
    /\ pc'[t] = "done"
    /\ resp'[t].status = 200

\* C7 as stated: every successful scrape made through the request path leaves
\* a cache entry for that requester, ticker and kind with the scraped payload
\* dated today, so that a request made next on the same day is a hit.
C7_EveryScrapeCached ==
    [][\A t \in Threads :
        AnswersScrape(t) =>
            get_cached_by_ticker(req[t].kind, req[t].ticker, req[t].user_id)'
                = resp'[t].data]_vars

\* C7: a successful scrape made through the request path, by a requester who
\* holds the ticker when the scraper returns, creates or overwrites the one
\* cache entry for that holding and kind with the scraped payload dated
\* today, so that a request made next on the same day is a hit returning that
\* payload; for a requester with no holding of the ticker nothing is stored.
C7_ScrapeCachedWhenHeld ==
    [][\A t \in Threads :
        AnswersScrape(t) =>
            LET kind == req[t].kind
                existing_holding ==
                    find_existing_holding_by_ticker(req[t].ticker, req[t].user_id)
            IN  IF existing_holding # None
                THEN /\ Rows(kind, existing_holding[1].id)' =
                            {CacheRow(req[t].user_id, existing_holding[1].id,
                                      json_dumps(kind, resp'[t].data[1]), today, today)}
                     /\ get_cached_by_ticker(kind, req[t].ticker, req[t].user_id)'
                            = resp'[t].data
                ELSE UNCHANGED cacheVars]_vars

\* One request was answered from a scrape, and the same request made after
\* it was answered from the cache with the same payload.
C7_Witness ==
    \E t, u \in Threads :
        /\ t # u
        /\ pc[t] = "done" /\ resp[t].status = 200 /\ ~resp[t].cached
        /\ pc[u] = "done" /\ resp[u].cached
        /\ req[u] = req[t]
        /\ resp[u].data = resp[t].data

\* The alias set of a company row.
Aliases(company) == {upper(x) : x \in Range(company.tickers)}

\* C8: after any sequence of get_stock_price and add_holding calls no ticker
\* is in the alias set of two different Company records.
C8_OneCompanyPerTicker ==
    \A i, j \in DOMAIN companies :
        i # j => Aliases(companies[i]) \cap Aliases(companies[j]) = {}

\* C9: the alias set of every Company is exactly the set of tickers whose
\* resolution or registry write under that company's name succeeded: a later
\* write for the name adds its ticker and removes none.
C9_AliasesAreUnion ==
    \A i \in DOMAIN companies :
        Aliases(companies[i]) = resolved[companies[i].name]

\* C10: no two Company records have the same name, for any sequence or
\* interleaving of resolutions and registry writes.
C10_NamesUnique ==
    \A i, j \in DOMAIN companies : i # j => companies[i].name # companies[j].name

\* One call lost the race to insert a name and was answered 500, and another
\* resolved a second ticker to a name that was already registered.
C10_Witness ==
    \E t, u \in Threads :
        /\ t # u
        /\ pc[t] = "done" /\ call[t].status = 500
        /\ pc[u] = "done" /\ call[u].op = "price" /\ call[u].status = 200
        /\ Cardinality(resolved[call[u].name]) = 2
        /\ \E i \in DOMAIN companies : companies[i].name = call[t].name

\* The companies a discovered name matches: by exact name, or by owning the
\* alias the name collapses to.
NameMatches(company_name) ==
    {i \in DOMAIN companies :
        \/ companies[i].name = company_name
        \/ upper(remove_spaces(company_name)) \in Aliases(companies[i])}

\* C11: when an unknown ticker is resolved and the name discovered in Stage A
\* matches a registered Company, by exact name or by an alias it owns, Stage B
\* is not run, the new ticker is appended to that Company's alias set and the
\* Company's kotak_url is kept.
C11_MergedIntoMatch ==
    [][\A t \in Threads :
        /\ (pc[t] = "second_find" /\ pc'[t] # "second_find"
                /\ NameMatches(call[t].name) # {})
            => (~call'[t].probed /\ pc'[t] = "goc_select")
        /\ (pc[t] = "goc_write" /\ call[t].op = "price" /\ pc'[t] = "done")
            => \A i \in NameMatches(call[t].name) :
                  /\ Aliases(companies'[i]) = Aliases(companies[i]) \cup {call[t].ticker}
                  /\ companies'[i].kotak_url = companies[i].kotak_url]_vars

\* The loop has requested the first candidates, each once and in list order,
\* and every answer but the last was a failure.
ProbedInOrder ==
    /\ Len(probe.requested) <= Len(probe.all_variations)
    /\ \A k \in DOMAIN probe.requested :
          probe.requested[k] = KotakStockUrl(probe.all_variations[k])
    /\ \A k \in 1..(Len(probe.requested) - 1) :
          \/ probe.answers[k].raises
          \/ probe.answers[k].status_code # 200
          \/ probe.answers[k].price_div = None

\* The last answer received is a page with status 200 and a price element.
LastHasPrice ==
    /\ probe.requested # <<>>
    /\ LET last == probe.answers[Len(probe.answers)]
       IN  ~last.raises /\ last.status_code = 200 /\ last.price_div # None

\* C12: find_working_kotak_url requests the candidates strictly in list
\* order; it stops at the first whose page has a price element and returns
\* that URL (no later candidate is requested); a candidate that answers
\* non-200, lacks the price element or raises has failed and the next is
\* tried; not-found is returned only after every candidate has failed.
C12_ProbesInOrder ==
    probe.pc \in {"probing", "returned"} =>
        /\ ProbedInOrder
        /\ probe.pc = "probing" => ~LastHasPrice
        /\ (probe.pc = "returned" /\ probe.returned.url # None) =>
              /\ LastHasPrice
              /\ probe.returned.url = Some(probe.requested[Len(probe.requested)])
        /\ (probe.pc = "returned" /\ probe.returned.url = None) =>
              /\ ~LastHasPrice
              /\ Len(probe.requested) = Len(probe.all_variations)
              /\ probe.returned.price = None

\* The third of eight candidates is returned after one that raised and one
\* that answered 503.
C12_Witness ==
    /\ probe.pc = "returned"
    /\ Len(probe.all_variations) = 8
    /\ Len(probe.requested) = 3
    /\ probe.answers[1].raises
    /\ probe.answers[2].status_code = 503
    /\ probe.returned.url = Some(KotakStockUrl(probe.all_variations[3]))
    /\ probe.returned.price = Some(<<"4", "2">>)

NoParentheses(name) == \A k \in DOMAIN name : name[k] \notin {"(", ")"}

\* The candidate list starts with the slug of the whole name, has the slug
\* of the name without its last four characters among the next at most
\* `within` un-prefixed entries, and only then the "bse-" entries, which
\* repeat the un-prefixed ones in their order.
FullThenStripped(name, candidates, within) ==
    LET n == Len(candidates) \div 2
    IN  /\ candidates[1] = format_for_url(name)
        /\ \E k \in 2..n :
              /\ k <= 1 + within
              /\ candidates[k] = format_for_url(SubSeq(name, 1, Len(name) - 4))
        /\ \A k \in 1..n : candidates[n + k] = bse \o candidates[k]

RECURSIVE CountIn(_, _)
CountIn(seq, S) ==
    IF seq = <<>> THEN 0
    ELSE (IF Head(seq) \in S THEN 1 ELSE 0) + CountIn(Tail(seq), S)

\* C14: if after the login submission and wait the current URL still holds
\* the login path, the scraper call returns a failure: in that call it never
\* navigates to the company page nor extracts, it logs in no second time,
\* and the browser session is quit before the call returns.
C14_LoginFailureEndsCall ==
    \A t \in Threads :
        Has(phases[t], "login_failed") =>
            /\ pc[t] \in {"finally", "unlock", "returned"}
            /\ CountIn(phases[t], {"navigated", "navigate_raised", "extracted", "extracted_empty"}) = 0
            /\ CountIn(phases[t], {"login_raised", "login_failed", "login_ok"}) = 1
            /\ result[t] = None
            /\ pc[t] \in {"unlock", "returned"} => (browsers[t] = 0 /\ Has(phases[t], "quit"))

\* A call has returned after a failed login, its session quit, while the
\* other thread's call is at the login of its own session.
C14_Witness ==
    \E t, u \in Threads :
        /\ pc[t] = "returned"
        /\ phases[t] = <<"launched", "login_failed", "quit">>
        /\ result[t] = None
        /\ pc[u] = "login"

\* C15: when the driver binary is absent at the configured path the scraper
\* call returns a failure before any browser session is launched and before
\* any request is made: the call does nothing else.
C15_NoDriverNoSession ==
    \A t \in Threads :
        Has(phases[t], "no_driver") =>
            /\ phases[t] = <<"no_driver">>
            /\ pc[t] \in {"unlock", "returned"}
            /\ browsers[t] = 0
            /\ driver[t] = None
            /\ result[t] = None

\* A call has returned for want of the driver, after an earlier call of the
\* other thread ran a whole session.
C15_Witness ==
    \E t, u \in Threads :
        /\ pc[t] = "returned"
        /\ phases[t] = <<"no_driver">>
        /\ result[t] = None
        /\ pc[u] = "returned"
        /\ Has(phases[u], "extracted")

\* The call of get_kotak_price_from_url has returned after a failure: the
\* request or the parsing raised, or the status was not 200.
QuoteFailed ==
    /\ quote.pc \in {"fetched", "responded"}
    /\ quote.answer.raises \/ quote.answer.status_code # 200

\* The kind of failure an answer is.
FailureKind(answer) ==
    IF answer.raises THEN "request_failed"
    ELSE IF answer.status_code # 200 THEN "http_status"
    ELSE "none"

NothingExtracted ==
    /\ quote.pc = "responded"
    /\ ~quote.answer.raises
    /\ quote.answer.status_code = 200
    /\ quote.kotak_data = Some(KotakData(None, None, None, None))

\* C17: when the page is fetched but none of the four fields can be
\* extracted, get_stock_price answers with the failure "Price not found" and
\* not with a successful response.
C17_PriceNotFound ==
    NothingExtracted =>
        /\ quote.response.status = 404
        /\ "error" \in DOMAIN quote.response.body

\* A string with no digit in it.
NoDigit(text) == \A i \in DOMAIN text : text[i] \notin Digits

\* C18: parse_price never raises: for None, a number and every string it
\* returns a number, and that number is 0 for None, for the empty string and
\* for every string with no digit.
C18_NeverRaises ==
    parse.pc = "done" =>
        /\ parse.outcome.raises = ""
        /\ parse.outcome.value # None
        /\ (parse.value.type = "NoneType" \/ (parse.value.type = "str" /\ NoDigit(parse.value.str)))
               => parse.outcome.value = Some(Float(0, 0))

\* C19: in every dataset _parse_quarterly_results returns, every metric has
\* exactly as many values as there are headers.
C19_ValuesMatchHeaders ==
    (qresults.pc = "done" /\ qresults.quarterly_data # None) =>
        \A name \in DOMAIN qresults.quarterly_data[1].metrics :
            Len(qresults.quarterly_data[1].metrics[name])
                = Len(qresults.quarterly_data[1].headers)

\* A step of a ratios or quarterly request whose scrape fails: a step of the
\* scraper call, or the handler's step after the call returned None.
FailedScrapeStep(t) ==
    /\ pc'[t] # pc[t]
    /\ \/ pc[t] \in {"scrape", "locked", "unlock"}
       \/ pc[t] = "returned" /\ result[t] = None

\* The company whose price is asked for is the one the scrape failed for.
SameTicker(t) == req[t].ticker \in Range(quote.company_data.tickers)

\* C20, the frame: no step of a failed scrape changes a cache entry of either
\* kind, a holding or the company registry.
C20_FailedScrapeFrame ==
    [][\A t \in Threads :
          FailedScrapeStep(t) => UNCHANGED <<ratios_cache, quarterly_cache, holdings, companies>>]_vars

\* C20, the quote: whatever the scraper did, a price request whose quote page
\* came with its fields is answered with the quote.
C20_QuoteSucceeds ==
    (quote.pc = "responded" /\ quote.answer = QuoteAnswer(FALSE, 200, FullPage)) =>
        quote.response =
            JsonResponse(200, PriceBody(quote.company_data.name, quote.kotak_data[1]))

\* C20: a failed ratios or quarterly scrape leaves the cache entries of both
\* kinds and the company registry as they were, and a quote fetch for the
\* same ticker still succeeds.
C20_FailureIsLocal == C20_FailedScrapeFrame /\ []C20_QuoteSucceeds

\* A stale entry was there, the scrape for the ticker failed with 404 and the
\* entry is still there; the price of the same ticker was then fetched.
C20_Witness ==
    /\ pc[Client] = "done"
    /\ resp[Client].status = 404
    /\ today = 2
    /\ \E row \in ratios_cache \cup quarterly_cache : row.cache_date = 1
    /\ companies = InitCompanies
    /\ quote.pc = "responded"
    /\ SameTicker(Client)
    /\ quote.response.body # EmptyDict
    /\ quote.response.body.price = <<"2", "4", "5", ".", "5">>

\* C21: every scraper call eventually returns, and in particular every
\* caller waiting for selenium_lock eventually acquires it.
C21_EveryCallReturns ==
    \A t \in Threads :
        /\ (pc[t] = "scrape") ~> (pc[t] = "locked")
        /\ (pc[t] = "scrape") ~> (pc[t] = "returned")

\* What holds of a call once it has the lock: it returns, and the lock is
\* free again.
HolderReturns ==
    \A t \in Threads :
        (pc[t] = "locked") ~> (pc[t] = "returned" /\ selenium_lock # Some(t))

\* No get_stock_price or add_holding call is under way.
Quiescent == \A t \in Threads : pc[t] \in {"idle", "done"}

\* The rows registered under a name.
RowsNamed(name) == {i \in DOMAIN companies : companies[i].name = name}

\* C22: when the resolutions that ran, concurrently or not, have all
\* finished, the record of each company they resolved is the one fixed by
\* what was resolved, whatever the interleaving: one row, holding every
\* ticker that was resolved to the name.
C22_Convergent ==
    Quiescent =>
        \A name \in CompanyNames :
            resolved[name] # {} =>
                /\ Cardinality(RowsNamed(name)) = 1
                /\ \A i \in RowsNamed(name) : resolved[name] \subseteq Aliases(companies[i])

\* The place of a recorded phase in the order session start, authenticate,
\* navigate, extract, close.
PhaseRank(phase) ==
    CASE phase \in {"no_driver", "launch_raised", "launched"} -> 1
      [] phase \in {"login_raised", "login_failed", "login_ok"} -> 2
      [] phase \in {"navigate_raised", "navigated"} -> 3
      [] phase \in {"extracted_empty", "extracted"} -> 4
      [] phase = "quit" -> 5

\* C23: within one scraper call the phases occur in the order session start,
\* authenticate, navigate, extract, close, each at most once, and extraction
\* is reached only after a launched session, a successful login and a
\* successful navigation of the same call.
C23_PhaseOrder ==
    \A t \in Threads :
        /\ \A i, j \in DOMAIN phases[t] :
               i < j => PhaseRank(phases[t][i]) < PhaseRank(phases[t][j])
        /\ (pc[t] = "extract" \/ CountIn(phases[t], {"extracted_empty", "extracted"}) > 0)
               => SubSeq(phases[t], 1, 3) = <<"launched", "login_ok", "navigated">>

\* One call went through all five phases and returned data; the call of the
\* other thread failed at the navigation, after its login, and closed its
\* session.
C23_Witness ==
    \E t, u \in Threads :
        /\ pc[t] = "returned"
        /\ phases[t] = <<"launched", "login_ok", "navigated", "extracted", "quit">>
        /\ result[t] # None
        /\ pc[u] = "returned"
        /\ phases[u] = <<"launched", "login_ok", "navigate_raised", "quit">>
        /\ result[u] = None

\* C24: for either kind, when the extraction of a call came out empty the
\* debug page of its ticker has been saved by the time the call returns
\* failure.
C24_DebugPageSaved ==
    \A t \in Threads :
        (Has(phases[t], "extracted_empty") /\ pc[t] \in {"finally", "unlock", "returned"})
            => /\ result[t] = None
               /\ DebugPage(req[t].ticker) \in debug_pages

\* A quarterly call whose parse was empty has returned, and no debug page
\* has ever been written.
QuarterlyEmptyNoPage ==
    \E t \in Threads :
        /\ pc[t] = "returned"
        /\ req[t].kind = "quarterly"
        /\ Has(phases[t], "extracted_empty")
        /\ debug_pages = {}

\* The elements of a sequence in order, each kept where it first occurs.
RECURSIVE KeepFirst(_)
KeepFirst(seq) ==
    IF seq = <<>> THEN <<>>
    ELSE LET before == SubSeq(seq, 1, Len(seq) - 1)
             last   == seq[Len(seq)]
         IN  IF \E k \in DOMAIN before : before[k] = last
             THEN KeepFirst(before)
             ELSE Append(KeepFirst(before), last)

\* The four variations of a name, (1) to (4): the slug of the name, of the
\* name without its parentheses, without its suffix, and without both.
FourVariations(name) ==
    LET clean_name == str_strip(name, Whitespace)
    IN  <<format_for_url(clean_name),
          format_for_url(without_parens(clean_name)),
          format_for_url(without_suffix(clean_name)),
          format_for_url(without_parens(without_suffix(clean_name)))>>

\* C25: the candidate list of any name has at most 8 entries: the variations
\* (1) to (4) in that order, each kept only where it first occurs, so that
\* they are pairwise distinct, followed by the same entries in the same
\* order each with "bse-" before it; no prefixed entry comes before an
\* un-prefixed one.
C25_AtMostEight ==
    probe.pc = "probing" =>
        LET candidates == probe.all_variations
            half       == Len(candidates) \div 2
            plain      == SubSeq(candidates, 1, half)
        IN  /\ Len(candidates) <= 8
            /\ Len(candidates) = 2 * half
            /\ plain = KeepFirst(FourVariations(probe.company_name))
            /\ \A j, k \in DOMAIN plain : j # k => plain[j] # plain[k]
            /\ \A k \in DOMAIN plain :
                   candidates[half + k] = <<"b", "s", "e", "-">> \o plain[k]

\* The list of a name with parentheses and a suffix has all eight entries.
C25_Witness ==
    /\ probe.pc = "probing"
    /\ probe.company_name = <<"(", "a", ")", " ", "L", "t", "d">>
    /\ Len(probe.all_variations) = 8
    /\ probe.all_variations[3] = <<"a">>
    /\ probe.all_variations[7] = <<"b", "s", "e", "-", "a">>

\* The profile page asked for gave no company name: the request raised, the
\* status was not 200, or the div or the h1 in it was not found.
NoNameRecovered(answer) ==
    /\ answer # NoProfile
    /\ \/ answer.raises
       \/ answer.status_code # 200
       \/ ~answer.div
       \/ answer.h1 = None

\* C26: when Stage A recovers no company name for an unknown ticker, the
\* call ends there with 404: Stage B is not run and the registry is as it
\* was.
C26_StageAFailureEndsCall ==
    [][\A t \in Threads :
          (PriceFirstFind(t) /\ NoNameRecovered(call'[t].profile))
              => /\ pc'[t] = "done"
                 /\ call'[t].status = 404
                 /\ ~call'[t].probed
                 /\ call'[t].args = None
                 /\ companies' = companies
                 /\ resolved' = resolved]_vars

\* A call was answered 404 after a profile page without the heading, while
\* a company registered by an earlier resolution is in the registry.
C26_Witness ==
    \E t \in Threads :
        /\ pc[t] = "done"
        /\ call[t].op = "price"
        /\ call[t].profile = ProfileAnswer(FALSE, 200, TRUE, None)
        /\ call[t].status = 404
        /\ Len(companies) = 1
        /\ companies[1].name = "Wipro Ltd"

\* C27: a request that missed the cache and waited for the lock does not
\* scrape again once another request has scraped and cached today's data
\* for the same holding and kind: no scrape comes back with data while the
\* cache already holds today's entry for its user, ticker and kind.
C27_OneScrapePerDay ==
    [][\A t \in Threads :
          (pc[t] = "unlock" /\ pc'[t] = "returned" /\ result[t] # None)
              => ~Truthy(req[t].kind,
                         get_cached_by_ticker(req[t].kind, req[t].ticker, req[t].user_id))]_vars

\* C28: once a company has a non-empty kotak_url, no step of a later
\* get_stock_price or add_holding changes or blanks it.
C28_QuoteUrlKept ==
    [][\A i \in DOMAIN companies :
          companies[i].kotak_url # ""
              => /\ i \in DOMAIN companies'
                 /\ companies'[i].kotak_url = companies[i].kotak_url]_vars

\* C29: a refresh by get_holdings erases no stored market data: a column of
\* a holding whose field the fetched quote lacks holds after the request
\* what it held before it.
C29_RefreshKeepsStored ==
    [][lastOp'.op = "get_holdings" =>
          \A id \in DOMAIN market :
              \A column \in {"marketPrice", "previousClose", "priceChangeAmount",
                             "priceChangePercent"} :
                  LET kotak_data == IF id \in DOMAIN lastOp'.kotak_data
                                    THEN lastOp'.kotak_data[id] ELSE None
                      lacks == \/ kotak_data = None
                               \/ ~StrTruthy(QuoteField(kotak_data[1], column))
                  IN  lacks => market'[id][column] = market[id][column]]_vars

\* A refresh that found some field of the quote and not another has left
\* NULL in the column of the missing one, which held a value before.
StoredValueErased ==
    \E id \in DOMAIN market :
        /\ lastOp.op = "get_holdings"
        /\ id \in DOMAIN lastOp.kotak_data
        /\ lastOp.kotak_data[id] # None
        /\ StrTruthy(lastOp.kotak_data[id][1].price)
        /\ lastOp.kotak_data[id][1].previous_close = None
        /\ market[id].previousClose = None

\* C30: a sell request changes or deletes only a holding of the user who
\* made it: a holding of another user, and the cache entries of that
\* holding, are after the request what they were before it.
C30_SellOnlyOwn ==
    [][lastOp'.op = "sell" =>
          \A h \in holdings :
              h.user_id # lastOp'.user_id =>
                  /\ h \in holdings'
                  /\ \A r \in ratios_cache : r.holding_id = h.id => r \in ratios_cache'
                  /\ \A r \in quarterly_cache : r.holding_id = h.id => r \in quarterly_cache']_vars

\* User 2 has sold the whole of holding h1 of user 1: the row is gone.
OtherUsersHoldingRemoved ==
    /\ lastOp.op = "sell"
    /\ lastOp.user_id = 2
    /\ lastOp.holding_id = "h1"
    /\ lastOp.removed
    /\ \A h \in holdings : h.id # "h1"

=============================================================================
